---- MODULE Spec2Model ----
(***************************************************************************)
(* Model of the lead enrichment and campaign-routing pipeline of           *)
(* cold_email_processor.py and n8n_icebreaker_client.py.                   *)
(*                                                                         *)
(* Python strings are TLA+ strings; Len, SubSeq and \o act on them as on   *)
(* sequences of characters.                                                *)
(***************************************************************************)
EXTENDS Integers, Sequences, FiniteSets, TLC

VARIABLES
    environ,        \* os.environ and the libraries that could be imported
    self,           \* the fields of the ColdEmailProcessor
    genCase,        \* one call of generate_ai_icebreaker and what it returned
    leads,          \* process_leads_batch: the list of leads given
    batch_size,     \*   the batch size given
    pc,             \*   the step the call is at
    i,              \*   the start of the current batch
    batch,          \*   the current batch
    k,              \*   the position in the batch of the lead being handled
    icebreaker,     \*   locals of the loop body
    score,
    campaign_name,
    success,
    processed,      \*   counters
    successful,
    failed,
    stats,          \*   the statistics returned
    campaigns,      \*   the campaign list fetched
    log,            \* what the run has done so far
    scoreCase,      \* a lead, a changed copy of it, and their scores
    routeCase,      \* two scores and the tiers they are routed to
    ingest,         \* one call of a loader: the table, the loop over its rows
    fan,            \* one call of batch_generate_icebreakers and its worker threads
    report          \* one call of generate_processing_report

procVars == <<environ, self>>
genVars == <<genCase>>
runVars == <<leads, batch_size, pc, i, batch, k, icebreaker, score, campaign_name,
             success, processed, successful, failed, stats, campaigns, log>>
scoreVars == <<scoreCase>>
routeVars == <<routeCase>>
ingestVars == <<ingest>>
fanVars == <<fan>>
reportVars == <<report>>

-----------------------------------------------------------------------------
(* Python string operations used by the program.                           *)

UpperCase == "ABCDEFGHIJKLMNOPQRSTUVWXYZ"
LowerCase == "abcdefghijklmnopqrstuvwxyz"

CharAt(s, n) == SubSeq(s, n, n)

\* str.lower() on one character
lower_char(c) ==
    IF \E n \in 1..Len(UpperCase) : CharAt(UpperCase, n) = c
    THEN CharAt(LowerCase, CHOOSE n \in 1..Len(UpperCase) : CharAt(UpperCase, n) = c)
    ELSE c

\* str.lower()
RECURSIVE lower(_)
lower(s) ==
    IF Len(s) = 0 THEN "" ELSE lower_char(CharAt(s, 1)) \o lower(SubSeq(s, 2, Len(s)))

\* the operator `k in s` on strings
contains(s, sub) ==
    \E n \in 1..(Len(s) - Len(sub) + 1) : SubSeq(s, n, n + Len(sub) - 1) = sub

\* any(keyword in s for keyword in keywords)
any_in(keywords, s) == \E kw \in keywords : contains(s, kw)

Min(a, b) == IF a <= b THEN a ELSE b

\* s.startswith(prefix)
startswith(s, prefix) == Len(s) >= Len(prefix) /\ SubSeq(s, 1, Len(prefix)) = prefix

\* s.endswith(suffix)
endswith(s, suffix) ==
    Len(s) >= Len(suffix) /\ SubSeq(s, Len(s) - Len(suffix) + 1, Len(s)) = suffix

\* the positions of s that hold a character of `chars`
Positions(s, chars) == {n \in 1..Len(s) : CharAt(s, n) \in chars}

SetMin(S) == CHOOSE n \in S : \A j \in S : n <= j
SetMax(S) == CHOOSE n \in S : \A j \in S : n >= j

\* s.find(c) + 1 for a character c that occurs in s
IndexOf(s, c) == SetMin(Positions(s, {c}))

\* s.strip(chars): the characters of `chars` removed from both ends
strip_chars(s, chars) ==
    LET kept == (1..Len(s)) \ Positions(s, chars)
    IN IF kept = {} THEN "" ELSE SubSeq(s, SetMin(kept), SetMax(kept))

Whitespace == {" "}

\* s.strip()
strip(s) == strip_chars(s, Whitespace)

\* the outcome of a call: a value returned, or an exception raised
Returned(v) == [raised |-> FALSE, value |-> v]
Raised == [raised |-> TRUE, value |-> ""]

\* str.format(**kw): "{name}" is replaced by kw[name], "{{" and "}}" are
\* literal braces; an unknown name raises KeyError, a lone brace ValueError.
\* The text is read one run of literal characters or one field at a time.
RECURSIVE format(_, _)
format(t, kw) ==
    LET Braces == {"{", "}"}
        Lit(x, tail) == IF tail.raised THEN Raised ELSE Returned(x \o tail.value)
        at == Positions(t, Braces)
    IN IF at = {} THEN Returned(t)
       ELSE LET b == SetMin(at)
                c == CharAt(t, b)
                rest == SubSeq(t, b + 1, Len(t))
            IN IF startswith(rest, c)
               THEN Lit(SubSeq(t, 1, b), format(SubSeq(rest, 2, Len(rest)), kw))
               ELSE IF c = "}" THEN Raised
               ELSE IF ~contains(rest, "}") THEN Raised
               ELSE LET n == IndexOf(rest, "}")
                        name == SubSeq(rest, 1, n - 1)
                    IN IF name \in DOMAIN kw
                       THEN Lit(SubSeq(t, 1, b - 1) \o kw[name],
                                format(SubSeq(rest, n + 1, Len(rest)), kw))
                       ELSE Raised

-----------------------------------------------------------------------------
(* Lead (dataclass) and the scorer and router.                             *)

Lead(first_name, last_name, email, company_name, industry, website, title, linkedin) ==
    [first_name |-> first_name, last_name |-> last_name, email |-> email,
     company_name |-> company_name, industry |-> industry, website |-> website,
     title |-> title, linkedin |-> linkedin]

NoLead == Lead("", "", "", "", "", "", "", "")

company_keywords == {"agency", "consulting", "services"}
high_value_industries == {"marketing", "consulting", "agency", "services", "legal", "accounting"}
decision_maker_titles == {"owner", "ceo", "president", "founder", "director", "vp"}

\* calculate_lead_score with the industry rule worth 40 and the cap dropped
calculate_lead_score_uncapped(lead) ==
      (IF any_in(company_keywords, lower(lead.company_name)) THEN 25 ELSE 0)
    + (IF any_in(high_value_industries, lower(lead.industry)) THEN 40 ELSE 0)
    + (IF any_in(decision_maker_titles, lower(lead.title)) THEN 25 ELSE 0)
    + (IF lead.website # "" /\ contains(lead.website, "http") THEN 10 ELSE 0)
    + (IF lead.linkedin # "" THEN 10 ELSE 0)

\* calculate_lead_score without the .lower() of the fields
calculate_lead_score_cased(lead) ==
    Min(  (IF any_in(company_keywords, lead.company_name) THEN 25 ELSE 0)
        + (IF any_in(high_value_industries, lead.industry) THEN 30 ELSE 0)
        + (IF any_in(decision_maker_titles, lead.title) THEN 25 ELSE 0)
        + (IF lead.website # "" /\ contains(lead.website, "http") THEN 10 ELSE 0)
        + (IF lead.linkedin # "" THEN 10 ELSE 0), 100)

\* calculate_lead_score with `keyword == field` in place of `keyword in field`
calculate_lead_score_exact(lead) ==
    Min(  (IF lower(lead.company_name) \in company_keywords THEN 25 ELSE 0)
        + (IF lower(lead.industry) \in high_value_industries THEN 30 ELSE 0)
        + (IF lower(lead.title) \in decision_maker_titles THEN 25 ELSE 0)
        + (IF lead.website = "http" THEN 10 ELSE 0)
        + (IF lead.linkedin # "" THEN 10 ELSE 0), 100)

\* the rules of calculate_lead_score that a lead matches
company_rule(lead) == any_in(company_keywords, lower(lead.company_name))
industry_rule(lead) == any_in(high_value_industries, lower(lead.industry))
title_rule(lead) == any_in(decision_maker_titles, lower(lead.title))
website_rule(lead) == lead.website # "" /\ contains(lead.website, "http")
linkedin_rule(lead) == lead.linkedin # ""

\* the local `score` with the industry rule worth 40
score_before_cap_heavy(lead) ==
      (IF company_rule(lead) THEN 25 ELSE 0)
    + (IF industry_rule(lead) THEN 40 ELSE 0)
    + (IF title_rule(lead) THEN 25 ELSE 0)
    + (IF website_rule(lead) THEN 10 ELSE 0)
    + (IF linkedin_rule(lead) THEN 10 ELSE 0)

\* the local `score` of calculate_lead_score before `return min(score, 100)`
score_before_cap(lead) ==
      (IF company_rule(lead) THEN 25 ELSE 0)
    + (IF industry_rule(lead) THEN 30 ELSE 0)
    + (IF title_rule(lead) THEN 25 ELSE 0)
    + (IF website_rule(lead) THEN 10 ELSE 0)
    + (IF linkedin_rule(lead) THEN 10 ELSE 0)

calculate_lead_score(lead) == Min(score_before_cap(lead), 100)

\* assign_campaign_by_score with `>` in place of `>=`
assign_campaign_by_score_strict(points) ==
    IF points > 80 THEN "enterprise-direct-pitch"
    ELSE IF points > 60 THEN "professional-nurture"
    ELSE "educational-sequence"

assign_campaign_by_score(points) ==
    IF points >= 80 THEN "enterprise-direct-pitch"
    ELSE IF points >= 60 THEN "professional-nurture"
    ELSE "educational-sequence"

Tiers == {"enterprise-direct-pitch", "professional-nurture", "educational-sequence"}

\* the order of the tiers
TierRank(t) ==
    CASE t = "educational-sequence" -> 1
      [] t = "professional-nurture" -> 2
      [] t = "enterprise-direct-pitch" -> 3
      [] OTHER -> 0

-----------------------------------------------------------------------------
(* The environment and the construction of the processor.                  *)

\* os.getenv(name) of a variable that is not set
None == "<None>"

\* bool(v) of a string or None
Truthy(v) == v # None /\ v # ""

\* os.getenv(name, default)
getenv(env, name, default) == IF env[name] = None THEN default ELSE env[name]

GoodFallback == "Hi {first_name}, love what {company_name} does in {industry}."
BadFallback == "Hi {name}, love what {company_name} does."

Environments ==
    [AI_PROVIDER : {None, "Azure_OpenAI", "none", "gpt"},
     N8N_ICEBREAKER_WEBHOOK_URL : {None, "https://n8n.example/webhook/icebreaker", "n8n.example/hook"},
     CLAUDE_API_KEY : {None, "sk-ant"},
     AZURE_OPENAI_KEY : {None, "az-key"},
     AZURE_OPENAI_ENDPOINT : {None, "https://az.example"},
     INSTANTLY_API_KEY : {None, "inst-key"},
     ICEBREAKER_ENABLED : {None, "False"},
     ICEBREAKER_FALLBACK : {None, GoodFallback, BadFallback},
     CLAUDE_AVAILABLE : BOOLEAN,
     OPENAI_AVAILABLE : BOOLEAN]

\* an environment with nothing set and no library installed
NoEnvironment ==
    [AI_PROVIDER |-> None, N8N_ICEBREAKER_WEBHOOK_URL |-> None, CLAUDE_API_KEY |-> None,
     AZURE_OPENAI_KEY |-> None, AZURE_OPENAI_ENDPOINT |-> None, INSTANTLY_API_KEY |-> None,
     ICEBREAKER_ENABLED |-> None, ICEBREAKER_FALLBACK |-> None,
     CLAUDE_AVAILABLE |-> FALSE, OPENAI_AVAILABLE |-> FALSE]

\* the processor before __init__ has run
NotConstructed ==
    [constructed |-> FALSE, ai_provider |-> None, claude_api_key |-> None,
     n8n_webhook_url |-> None, azure_openai_key |-> None,
     azure_openai_endpoint |-> None, instantly_api_key |-> None,
     instantly_headers |-> None, claude_client |-> None, n8n_client |-> None]

setup_credentials(s, env) ==
    LET provider == lower(getenv(env, "AI_PROVIDER", "claude"))
        url == env.N8N_ICEBREAKER_WEBHOOK_URL
        key == env.CLAUDE_API_KEY
    IN [s EXCEPT
          !.claude_api_key = key,
          !.n8n_webhook_url = url,
          !.azure_openai_key = env.AZURE_OPENAI_KEY,
          !.azure_openai_endpoint = env.AZURE_OPENAI_ENDPOINT,
          !.instantly_api_key = env.INSTANTLY_API_KEY,
          !.ai_provider =
              IF provider = "claude"
              THEN IF Truthy(url) THEN provider
                   ELSE IF ~Truthy(key) THEN "none" ELSE provider
              ELSE IF provider = "azure_openai"
                      /\ ~(Truthy(env.AZURE_OPENAI_KEY) /\ Truthy(env.AZURE_OPENAI_ENDPOINT))
                   THEN "none"
                   ELSE provider]

setup_instantly_client(s) ==
    [s EXCEPT !.instantly_headers =
        IF Truthy(s.instantly_api_key) THEN "Bearer " \o s.instantly_api_key ELSE ""]

\* N8nIcebreakerClient.__init__: the client (its webhook_url), or a ValueError
N8nIcebreakerClient(env, n8n_webhook_url) ==
    LET webhook_url == IF Truthy(n8n_webhook_url) THEN n8n_webhook_url
                       ELSE env.N8N_ICEBREAKER_WEBHOOK_URL
    IN IF ~Truthy(webhook_url) THEN Raised
       ELSE IF ~(startswith(webhook_url, "http://") \/ startswith(webhook_url, "https://"))
       THEN Raised
       ELSE Returned(webhook_url)

\* setup_ai_provider that creates the direct client whether or not the
\* relay client was created
setup_ai_provider_both(s, env) ==
    IF s.ai_provider = "claude"
    THEN LET made == IF Truthy(s.n8n_webhook_url)
                     THEN N8nIcebreakerClient(env, s.n8n_webhook_url) ELSE Raised
             n8n == IF made.raised THEN None ELSE made.value
         IN [s EXCEPT !.n8n_client = n8n,
                      !.claude_client =
                          IF env.CLAUDE_AVAILABLE /\ Truthy(s.claude_api_key)
                          THEN "anthropic" ELSE None,
                      !.ai_provider =
                          IF env.CLAUDE_AVAILABLE /\ Truthy(s.claude_api_key)
                          THEN @
                          ELSE IF n8n = None /\ ~Truthy(s.claude_api_key) THEN "none" ELSE @]
    ELSE [s EXCEPT !.claude_client = None, !.n8n_client = None,
                   !.ai_provider =
                       IF s.ai_provider = "azure_openai" /\ env.OPENAI_AVAILABLE
                          /\ Truthy(s.azure_openai_key)
                       THEN @ ELSE "none"]

\* setup_ai_provider; anthropic.Anthropic(api_key=...) only stores the key
\* and is taken to return
setup_ai_provider(s, env) ==
    IF s.ai_provider = "claude"
    THEN LET made == IF Truthy(s.n8n_webhook_url)
                     THEN N8nIcebreakerClient(env, s.n8n_webhook_url) ELSE Raised
             n8n == IF made.raised THEN None ELSE made.value
         IN [s EXCEPT !.n8n_client = n8n,
                      !.claude_client =
                          IF n8n = None /\ env.CLAUDE_AVAILABLE /\ Truthy(s.claude_api_key)
                          THEN "anthropic" ELSE None,
                      !.ai_provider =
                          IF n8n = None /\ env.CLAUDE_AVAILABLE /\ Truthy(s.claude_api_key)
                          THEN @
                          ELSE IF n8n = None /\ ~Truthy(s.claude_api_key) THEN "none" ELSE @]
    ELSE [s EXCEPT !.claude_client = None, !.n8n_client = None,
                   !.ai_provider =
                       IF s.ai_provider = "azure_openai" /\ env.OPENAI_AVAILABLE
                          /\ Truthy(s.azure_openai_key)
                       THEN @ ELSE "none"]

\* ColdEmailProcessor.__init__
ColdEmailProcessor(env) ==
    [setup_ai_provider(setup_instantly_client(setup_credentials(NotConstructed, env)), env)
        EXCEPT !.constructed = TRUE]

-----------------------------------------------------------------------------
(* The icebreaker generator.  A call yields [raised, value, calls]: whether *)
(* it raised, the text it returned, and the functions entered and requests *)
(* sent, in order.                                                         *)

Ret(v, calls) == [raised |-> FALSE, value |-> v, calls |-> calls]
Exc(calls) == [raised |-> TRUE, value |-> "", calls |-> calls]

\* the outcome r, reached after `calls`
After(calls, r) == [r EXCEPT !.calls = calls \o @]

ProcessorDefaultFallback ==
    "Impressed by what you're building at {company_name}, particularly your approach in the {industry} space."
ClientDefaultFallback ==
    "Impressed by what you're building at {company_name}, particularly your approach in the {industry} space"
DefaultTemplate ==
    "Love your approach to {specific_observation}, been following {company_name} for a while, big fan of your {service_focus}."

FallbackArgs(lead) ==
    [company_name |-> lead.company_name,
     industry |-> IF lead.industry # "" THEN lead.industry ELSE "business",
     first_name |-> lead.first_name]

get_icebreaker_fallback(env, lead) ==
    LET f == format(getenv(env, "ICEBREAKER_FALLBACK", ProcessorDefaultFallback), FallbackArgs(lead))
    IN IF f.raised THEN Exc(<<"get_icebreaker_fallback">>)
       ELSE Ret(f.value, <<"get_icebreaker_fallback">>)

\* N8nIcebreakerClient._get_fallback_response: the dict returned, or raised
get_fallback_response(env, lead, error) ==
    LET f == format(getenv(env, "ICEBREAKER_FALLBACK", ClientDefaultFallback), FallbackArgs(lead))
    IN IF f.raised THEN Exc(<<"_get_fallback_response">>)
       ELSE Ret([icebreaker |-> f.value, company_name |-> lead.company_name,
                 status |-> "fallback", error |-> error, provider |-> "fallback"],
                <<"_get_fallback_response">>)

\* what requests.post to the relay can give: a response with a status code
\* and a body, or an exception
RelayResponses ==
    {[kind |-> "response", status_code |-> 200, json |-> "dict",
      body |-> [status |-> "success", icebreaker |-> "\"Love your approach to onboarding.\""]],
     [kind |-> "response", status_code |-> 200, json |-> "dict",
      body |-> [status |-> "fallback", icebreaker |-> "Big fan of your work"]],
     [kind |-> "response", status_code |-> 200, json |-> "dict",
      body |-> [status |-> "success"]],
     [kind |-> "response", status_code |-> 200, json |-> "dict",
      body |-> [message |-> "Workflow was started"]],
     [kind |-> "response", status_code |-> 200, json |-> "list", body |-> <<>>],
     [kind |-> "response", status_code |-> 200, json |-> "invalid", body |-> <<>>],
     [kind |-> "response", status_code |-> 500, json |-> "invalid", body |-> <<>>],
     [kind |-> "Timeout", status_code |-> 0, json |-> "invalid", body |-> <<>>],
     [kind |-> "ConnectionError", status_code |-> 0, json |-> "invalid", body |-> <<>>]}

\* no request was sent
NoResponse == [kind |-> "none", status_code |-> 0, json |-> "invalid", body |-> <<>>]

\* the relay did not answer 200 with a body whose status is 'success' and
\* that carries a text
RelayFailed(resp) ==
    /\ resp.kind # "none"
    /\ ~(/\ resp.kind = "response" /\ resp.status_code = 200 /\ resp.json = "dict"
         /\ "status" \in DOMAIN resp.body /\ resp.body.status = "success"
         /\ "icebreaker" \in DOMAIN resp.body)

\* N8nIcebreakerClient.generate_icebreaker: the dict returned, or raised
n8n_generate_icebreaker(env, lead, resp) ==
    LET sent == <<"N8nIcebreakerClient.generate_icebreaker", "relay_request">>
        \* a fallback that raises inside the try block is caught by
        \* `except Exception`, whose handler formats the fallback again
        fallback(error) ==
            LET first == get_fallback_response(env, lead, error)
            IN IF first.raised
               THEN After(first.calls, get_fallback_response(env, lead, "format error"))
               ELSE first
    IN After(sent,
         IF resp.kind = "Timeout" THEN get_fallback_response(env, lead, "Request timeout")
         ELSE IF resp.kind = "ConnectionError"
         THEN get_fallback_response(env, lead, "Connection error")
         ELSE IF resp.status_code = 200
         THEN IF resp.json = "dict" THEN Ret(resp.body, <<>>)
              ELSE get_fallback_response(env, lead, "json error")
         ELSE fallback("HTTP error"))

\* what the direct AI request can give: the text of the message, or an exception
DirectResponses ==
    {[ok |-> TRUE, text |-> " \"Love what you're building.\" "],
     [ok |-> TRUE, text |-> "Big fan of your work"],
     [ok |-> FALSE, text |-> ""]}

NoDirect == [ok |-> FALSE, text |-> "<no request>"]

\* icebreaker.strip(), .strip('"\''), and one trailing period removed
clean_icebreaker(text) ==
    LET t == strip_chars(strip(text), {"\"", "'"})
    IN IF endswith(t, ".") THEN SubSeq(t, 1, Len(t) - 1) ELSE t

\* generate_claude_icebreaker that sends the request again after a failure
generate_claude_icebreaker_retrying(s, env, lead, direct) ==
    After(<<"generate_claude_icebreaker">>,
        IF s.claude_client = None THEN get_icebreaker_fallback(env, lead)
        ELSE After(<<"direct_request">>,
                IF direct.ok THEN Ret(clean_icebreaker(direct.text), <<>>)
                ELSE After(<<"direct_request">>, get_icebreaker_fallback(env, lead))))

generate_claude_icebreaker(s, env, lead, direct) ==
    After(<<"generate_claude_icebreaker">>,
        IF s.claude_client = None THEN get_icebreaker_fallback(env, lead)
        ELSE After(<<"direct_request">>,
                IF direct.ok THEN Ret(clean_icebreaker(direct.text), <<>>)
                ELSE get_icebreaker_fallback(env, lead)))

generate_openai_icebreaker(s, env, lead, direct) ==
    After(<<"generate_openai_icebreaker", "direct_request">>,
        IF direct.ok THEN Ret(clean_icebreaker(direct.text), <<>>)
        ELSE get_icebreaker_fallback(env, lead))

\* generate_n8n_icebreaker that cleans the relay's text as the direct stage
\* cleans the AI provider's
generate_n8n_icebreaker_cleaned(s, env, lead, resp, direct) ==
    After(<<"generate_n8n_icebreaker">>,
        IF s.n8n_client = None THEN generate_claude_icebreaker(s, env, lead, direct)
        ELSE LET r == n8n_generate_icebreaker(env, lead, resp)
                 status == IF ~r.raised /\ "status" \in DOMAIN r.value
                           THEN r.value.status ELSE None
                 except == After(r.calls, generate_claude_icebreaker(s, env, lead, direct))
             IN IF r.raised THEN except
                ELSE IF status \in {"success", "fallback"}
                THEN IF "icebreaker" \in DOMAIN r.value
                     THEN Ret(clean_icebreaker(r.value.icebreaker), r.calls)
                     ELSE except
                ELSE LET f == get_icebreaker_fallback(env, lead)
                     IN IF f.raised
                        THEN After(r.calls \o f.calls,
                                   generate_claude_icebreaker(s, env, lead, direct))
                        ELSE After(r.calls, f))

generate_n8n_icebreaker(s, env, lead, resp, direct) ==
    After(<<"generate_n8n_icebreaker">>,
        IF s.n8n_client = None THEN generate_claude_icebreaker(s, env, lead, direct)
        ELSE LET r == n8n_generate_icebreaker(env, lead, resp)
                 status == IF ~r.raised /\ "status" \in DOMAIN r.value
                           THEN r.value.status ELSE None
                 \* an exception inside the try block
                 except == After(r.calls, generate_claude_icebreaker(s, env, lead, direct))
             IN IF r.raised THEN except
                ELSE IF status \in {"success", "fallback"}
                THEN IF "icebreaker" \in DOMAIN r.value
                     THEN Ret(r.value.icebreaker, r.calls)
                     ELSE except
                ELSE LET f == get_icebreaker_fallback(env, lead)
                     IN IF f.raised
                        THEN After(r.calls \o f.calls,
                                   generate_claude_icebreaker(s, env, lead, direct))
                        ELSE After(r.calls, f))

generate_ai_icebreaker(s, env, lead, resp, direct) ==
    After(<<"generate_ai_icebreaker">>,
        IF lower(getenv(env, "ICEBREAKER_ENABLED", "true")) # "true"
        THEN get_icebreaker_fallback(env, lead)
        ELSE IF s.ai_provider = "claude"
        THEN IF s.n8n_client # None
             THEN generate_n8n_icebreaker(s, env, lead, resp, direct)
             ELSE generate_claude_icebreaker(s, env, lead, direct)
        ELSE IF s.ai_provider = "azure_openai"
        THEN generate_openai_icebreaker(s, env, lead, direct)
        ELSE get_icebreaker_fallback(env, lead))

\* the number of times `name` occurs in a sequence of calls
Count(calls, name) == Cardinality({n \in DOMAIN calls : calls[n] = name})

-----------------------------------------------------------------------------
(* The generator of a processor constructed in any environment, called for *)
(* one lead with any outcome of the requests it sends.                     *)

AcmeCo == Lead("Sam", "", "sam@acme.co", "Acme Co", "", "", "", "")
AcmeAgency == Lead("Jo", "Ray", "j@x.com", "Acme Agency", "Consulting", "http://x.com", "CEO", "li")
YCorp == Lead("Kim", "", "k@y.com", "Y Corp", "Retail", "", "Clerk", "")

GenLeads == {AcmeCo, AcmeAgency}

\* what the relay and the AI provider can answer to a processor: a processor
\* without the client gets no answer
RelayAnswers(s) == IF s.n8n_client # None THEN RelayResponses ELSE {NoResponse}
DirectAnswers(s) ==
    IF s.claude_client # None \/ s.ai_provider = "azure_openai"
    THEN DirectResponses ELSE {NoDirect}

GenStart ==
    [phase |-> "new", lead |-> NoLead, relay |-> NoResponse, direct |-> NoDirect,
     result |-> Ret("", <<>>)]

GenIdle == [GenStart EXCEPT !.phase = "idle"]

\* processor = ColdEmailProcessor()
Construct ==
    /\ genCase.phase = "new"
    /\ self' = ColdEmailProcessor(environ)
    /\ genCase' = [genCase EXCEPT !.phase = "constructed"]
    /\ UNCHANGED <<environ, runVars, scoreVars, routeVars, ingestVars, fanVars, reportVars>>

\* icebreaker = processor.generate_ai_icebreaker(lead); the responses kept
\* are those of the requests that were sent
Generate ==
    /\ genCase.phase = "constructed"
    /\ \E lead \in GenLeads, resp \in RelayAnswers(self), direct \in DirectAnswers(self) :
         LET r == generate_ai_icebreaker(self, environ, lead, resp, direct) IN
         genCase' = [phase |-> "generated", lead |-> lead,
                     relay |-> IF Count(r.calls, "relay_request") > 0 THEN resp ELSE NoResponse,
                     direct |-> IF Count(r.calls, "direct_request") > 0 THEN direct ELSE NoDirect,
                     result |-> r]
    /\ UNCHANGED <<procVars, runVars, scoreVars, routeVars, ingestVars, fanVars, reportVars>>

-----------------------------------------------------------------------------
(* The dispatch batcher: process_leads_batch, one action per step.         *)

MaxLeads == 3
MaxBatch == 2

RunLeads == {AcmeAgency, YCorp}

\* the lists of at most n leads
RECURSIVE LeadLists(_)
LeadLists(n) ==
    IF n = 0 THEN {<<>>}
    ELSE LET shorter == LeadLists(n - 1)
         IN shorter \cup {Append(l, x) : l \in {s \in shorter : Len(s) = n - 1}, x \in RunLeads}

\* the environments the batcher is run in: relay with the default and with a
\* malformed fallback template, direct AI client, no provider, no provider
\* and no platform key
RunEnvironments ==
    LET base == [NoEnvironment EXCEPT !.INSTANTLY_API_KEY = "inst-key",
                                      !.CLAUDE_AVAILABLE = TRUE]
        relay == [base EXCEPT !.N8N_ICEBREAKER_WEBHOOK_URL = "https://n8n.example/webhook/icebreaker",
                              !.CLAUDE_API_KEY = "sk-ant"]
    IN {relay,
        [relay EXCEPT !.ICEBREAKER_FALLBACK = BadFallback],
        [base EXCEPT !.CLAUDE_API_KEY = "sk-ant", !.ICEBREAKER_FALLBACK = GoodFallback],
        base,
        [base EXCEPT !.INSTANTLY_API_KEY = None]}

\* what requests.post to /lead/add can give
PlatformResponses ==
    {[kind |-> "response", status_code |-> 200],
     [kind |-> "response", status_code |-> 429],
     [kind |-> "ConnectionError", status_code |-> 0]}

NoAnswer == [kind |-> "none", status_code |-> 0]

NoRequest == [email |-> "", first_name |-> "", last_name |-> "", company_name |-> "",
              personalization |-> "", industry |-> "", website |-> "", title |-> "",
              icebreaker |-> "", campaign_id |-> "", skip_if_in_workspace |-> FALSE]

\* the JSON body without the duplicate-skip flag set
lead_data_no_skip(lead, text, campaign_id) ==
    [email |-> lead.email, first_name |-> lead.first_name, last_name |-> lead.last_name,
     company_name |-> lead.company_name, personalization |-> text,
     industry |-> lead.industry, website |-> lead.website, title |-> lead.title,
     icebreaker |-> text, campaign_id |-> campaign_id, skip_if_in_workspace |-> FALSE]

\* the JSON body create_instantly_lead posts
lead_data(lead, text, campaign_id) ==
    [email |-> lead.email, first_name |-> lead.first_name, last_name |-> lead.last_name,
     company_name |-> lead.company_name, personalization |-> text,
     industry |-> lead.industry, website |-> lead.website, title |-> lead.title,
     icebreaker |-> text, campaign_id |-> campaign_id, skip_if_in_workspace |-> TRUE]

\* create_instantly_lead that returns True for every response received
create_instantly_lead_any_status(response) ==
    response.kind = "response"

\* create_instantly_lead: True only for a response with status code 200
create_instantly_lead(response) ==
    response.kind = "response" /\ response.status_code = 200

\* what requests.get of /campaign/list can give: a response whose body is a
\* JSON object keyed by campaign, a JSON array of campaigns or no JSON at
\* all; a response with another status; an exception
CampaignResponses ==
    {[kind |-> "response", status_code |-> 200, json |-> "dict"],
     [kind |-> "response", status_code |-> 200, json |-> "list"],
     [kind |-> "response", status_code |-> 200, json |-> "invalid"],
     [kind |-> "response", status_code |-> 429, json |-> "invalid"],
     [kind |-> "ConnectionError", status_code |-> 0, json |-> "invalid"]}

\* a Python value: its type and its keys or items
EmptyDict == [type |-> "dict", items |-> {}]

\* get_instantly_campaigns: response.json() of a 200 response, whatever its
\* type; {} for another status, and when the request or response.json() raises
get_instantly_campaigns(response) ==
    IF response.kind = "response" /\ response.status_code = 200
    THEN CASE response.json = "dict" ->
                [type |-> "dict",
                 items |-> {"enterprise-direct-pitch", "professional-nurture",
                            "educational-sequence"}]
           [] response.json = "list" -> [type |-> "list", items |-> {"campaign"}]
           [] OTHER -> EmptyDict
    ELSE EmptyDict

\* list(campaigns.keys()) if campaigns else 'None found': an AttributeError
\* for a value that is not empty and has no keys()
campaign_keys(value) ==
    IF value.items = {} THEN Ret("None found", <<>>)
    ELSE IF value.type = "dict" THEN Ret(value.items, <<>>)
    ELSE Exc(<<>>)

\* the entries of the platform, per email, after it accepted a request: a
\* platform that honours skip_if_in_workspace adds no entry for an email it
\* already holds
platform_add(entries, request) ==
    IF request.skip_if_in_workspace /\ entries[request.email] > 0
    THEN entries
    ELSE [entries EXCEPT ![request.email] = @ + 1]

\* leads[i:i + batch_size + 1]
Slice_overlapping(list, start, size) == SubSeq(list, start + 1, Min(start + size + 1, Len(list)))

\* leads[i:i + batch_size]
Slice(list, start, size) == SubSeq(list, start + 1, Min(start + size, Len(list)))

NewStats ==
    [total_processed |-> 0, successful |-> 0, failed |-> 0,
     campaign_distribution |-> [t \in Tiers |-> 0]]

\* what has happened so far in the run: requests sent, steps taken, the
\* leads whose handling met a failure (a generation that raised, a dispatch
\* not answered 200), the dispatches sent after an earlier lead's failure,
\* the dispatch request last sent with its response, until the lead is
\* accounted for, and the entries the platform holds per email
NewLog ==
    [campaign_requests |-> 0, generated |-> 0, scored |-> 0, routed |-> 0,
     dispatched |-> 0, dispatched_after_failure |-> 0,
     lead_failures |-> 0, generation_failures |-> 0,
     lead_delays |-> 0, batch_pauses |-> 0, request |-> NoRequest,
     response |-> NoAnswer, entries |-> [e \in {l.email : l \in RunLeads} |-> 0]]

RunIdle ==
    /\ leads = <<>> /\ batch_size = 0 /\ pc = "idle" /\ i = 0 /\ batch = <<>> /\ k = 0
    /\ icebreaker = "" /\ score = 0 /\ campaign_name = "" /\ success = FALSE
    /\ processed = 0 /\ successful = 0 /\ failed = 0 /\ stats = NewStats
    /\ campaigns = EmptyDict /\ log = NewLog

total_leads == Len(leads)

\* the for loop over the batch moves to its next lead, or ends; the locals
\* of the body are dead here (each is assigned before it is read again) and
\* are reset
NextLead ==
    /\ k' = k + 1
    /\ pc' = IF k + 1 <= Len(batch) THEN "generate" ELSE "batch_end"
    /\ icebreaker' = "" /\ score' = 0 /\ campaign_name' = "" /\ success' = FALSE

\* the except clause of the loop body that forgets to count the lead
HandleException_uncounted ==
    /\ pc = "except"
    /\ failed' = failed + 1
    /\ NextLead
    /\ UNCHANGED <<leads, batch_size, i, batch, processed, successful, stats, campaigns, log, procVars, genVars,
                   scoreVars, routeVars, ingestVars, fanVars, reportVars>>

\* the success branch that counts the lead in every tier at or below its own
Account_cumulative ==
    /\ pc = "account"
    /\ IF success
       THEN /\ successful' = successful + 1
            /\ stats' = [stats EXCEPT !.campaign_distribution =
                            [t \in Tiers |-> IF TierRank(t) <= TierRank(campaign_name)
                                             THEN @[t] + 1 ELSE @[t]]]
            /\ UNCHANGED failed
       ELSE /\ failed' = failed + 1
            /\ UNCHANGED <<successful, stats>>
    /\ processed' = processed + 1
    /\ log' = [log EXCEPT !.request = NoRequest, !.response = NoAnswer]
    /\ pc' = "sleep"
    /\ UNCHANGED <<leads, batch_size, i, batch, k, icebreaker, score, campaign_name, success,
                   campaigns, procVars, genVars, scoreVars, routeVars, ingestVars, fanVars, reportVars>>

\* the loop body with the scoring step left out
GenerateIcebreaker_unscored ==
    /\ pc = "generate"
    /\ \E resp \in RelayAnswers(self), direct \in DirectAnswers(self) :
         LET r == generate_ai_icebreaker(self, environ, batch[k], resp, direct) IN
         /\ IF r.raised
            THEN pc' = "except" /\ UNCHANGED icebreaker
            ELSE pc' = "route" /\ icebreaker' = r.value
         /\ log' = [log EXCEPT !.generated = @ + 1,
                               !.generation_failures = IF r.raised THEN @ + 1 ELSE @,
                               !.lead_failures = IF r.raised THEN @ + 1 ELSE @]
    /\ UNCHANGED <<leads, batch_size, i, batch, k, score, campaign_name, success,
                   processed, successful, failed, stats, campaigns, procVars, genVars,
                   scoreVars, routeVars, ingestVars, fanVars, reportVars>>

\* the accounting with the per-lead delay only after an accepted lead
Account_no_delay_on_failure ==
    /\ pc = "account"
    /\ processed' = processed + 1
    /\ log' = [log EXCEPT !.request = NoRequest, !.response = NoAnswer]
    /\ IF success
       THEN /\ successful' = successful + 1
            /\ stats' = [stats EXCEPT !.campaign_distribution[campaign_name] = @ + 1]
            /\ pc' = "sleep"
            /\ UNCHANGED <<failed, k, icebreaker, score, campaign_name, success>>
       ELSE /\ failed' = failed + 1
            /\ NextLead
            /\ UNCHANGED <<successful, stats>>
    /\ UNCHANGED <<leads, batch_size, i, batch, campaigns, procVars, genVars, scoreVars,
                   routeVars, ingestVars, fanVars, reportVars>>

\* the pause test with <= in place of <
EndBatch_pause_at_end ==
    /\ pc = "batch_end"
    /\ IF i + batch_size <= total_leads
       THEN pc' = "pause" /\ UNCHANGED i
       ELSE pc' = "batch" /\ i' = i + batch_size
    /\ UNCHANGED <<leads, batch_size, batch, k, icebreaker, score, campaign_name, success,
                   processed, successful, failed, stats, campaigns, log, procVars, genVars,
                   scoreVars, routeVars, ingestVars, fanVars, reportVars>>

\* campaigns = self.get_instantly_campaigns()
GetCampaigns ==
    /\ pc = "campaigns"
    /\ \E response \in CampaignResponses :
         /\ campaigns' = get_instantly_campaigns(response)
         /\ pc' = IF campaign_keys(get_instantly_campaigns(response)).raised
                  THEN "raised" ELSE "batch"
    /\ log' = [log EXCEPT !.campaign_requests = @ + 1]
    /\ UNCHANGED <<leads, batch_size, i, batch, k, icebreaker, score, campaign_name, success,
                   processed, successful, failed, stats, procVars, genVars, scoreVars,
                   routeVars, ingestVars, fanVars, reportVars>>

\* for i in range(0, total_leads, batch_size): batch = leads[i:i + batch_size]
LoopBatch ==
    /\ pc = "batch"
    /\ IF i < total_leads
       THEN /\ batch' = Slice(leads, i, batch_size)
            /\ k' = 1
            /\ pc' = "generate"
       ELSE /\ pc' = "return"
            /\ UNCHANGED <<batch, k>>
    /\ UNCHANGED <<leads, batch_size, i, icebreaker, score, campaign_name, success,
                   processed, successful, failed, stats, campaigns, log, procVars, genVars,
                   scoreVars, routeVars, ingestVars, fanVars, reportVars>>

\* icebreaker = self.generate_ai_icebreaker(lead)
GenerateIcebreaker ==
    /\ pc = "generate"
    /\ \E resp \in RelayAnswers(self), direct \in DirectAnswers(self) :
         LET r == generate_ai_icebreaker(self, environ, batch[k], resp, direct) IN
         /\ IF r.raised
            THEN pc' = "except" /\ UNCHANGED icebreaker
            ELSE pc' = "score" /\ icebreaker' = r.value
         /\ log' = [log EXCEPT !.generated = @ + 1,
                               !.generation_failures = IF r.raised THEN @ + 1 ELSE @,
                               !.lead_failures = IF r.raised THEN @ + 1 ELSE @]
    /\ UNCHANGED <<leads, batch_size, i, batch, k, score, campaign_name, success,
                   processed, successful, failed, stats, campaigns, procVars, genVars,
                   scoreVars, routeVars, ingestVars, fanVars, reportVars>>

\* score = self.calculate_lead_score(lead)
CalculateScore ==
    /\ pc = "score"
    /\ score' = calculate_lead_score(batch[k])
    /\ log' = [log EXCEPT !.scored = @ + 1]
    /\ pc' = "route"
    /\ UNCHANGED <<leads, batch_size, i, batch, k, icebreaker, campaign_name, success,
                   processed, successful, failed, stats, campaigns, procVars, genVars,
                   scoreVars, routeVars, ingestVars, fanVars, reportVars>>

\* campaign_name = self.assign_campaign_by_score(score)
AssignCampaign ==
    /\ pc = "route"
    /\ campaign_name' = assign_campaign_by_score(score)
    /\ log' = [log EXCEPT !.routed = @ + 1]
    /\ pc' = "dispatch"
    /\ UNCHANGED <<leads, batch_size, i, batch, k, icebreaker, score, success,
                   processed, successful, failed, stats, campaigns, procVars, genVars,
                   scoreVars, routeVars, ingestVars, fanVars, reportVars>>

\* the dispatch step that posts the fields of the first lead of the batch
\* with the text and the tier of the current lead
CreateInstantlyLead_first_of_batch ==
    /\ pc = "dispatch"
    /\ \E response \in PlatformResponses :
         /\ success' = create_instantly_lead(response)
         /\ log' = [log EXCEPT
                      !.dispatched = @ + 1,
                      !.dispatched_after_failure =
                          IF log.lead_failures > 0 THEN @ + 1 ELSE @,
                      !.request = lead_data(batch[1], icebreaker, campaign_name),
                      !.response = response,
                      !.entries =
                          IF response.kind = "response" /\ response.status_code = 200
                          THEN platform_add(@, lead_data(batch[1], icebreaker, campaign_name))
                          ELSE @,
                      !.lead_failures =
                          IF response.kind = "response" /\ response.status_code = 200
                          THEN @ ELSE @ + 1]
    /\ pc' = "account"
    /\ UNCHANGED <<leads, batch_size, i, batch, k, icebreaker, score, campaign_name,
                   processed, successful, failed, stats, campaigns, procVars, genVars,
                   scoreVars, routeVars, ingestVars, fanVars, reportVars>>

\* success = self.create_instantly_lead(lead, icebreaker, campaign_name)
CreateInstantlyLead ==
    /\ pc = "dispatch"
    /\ \E response \in PlatformResponses :
         /\ success' = create_instantly_lead(response)
         /\ log' = [log EXCEPT
                      !.dispatched = @ + 1,
                      !.dispatched_after_failure =
                          IF log.lead_failures > 0 THEN @ + 1 ELSE @,
                      !.request = lead_data(batch[k], icebreaker, campaign_name),
                      !.response = response,
                      !.entries =
                          IF response.kind = "response" /\ response.status_code = 200
                          THEN platform_add(@, lead_data(batch[k], icebreaker, campaign_name))
                          ELSE @,
                      !.lead_failures =
                          IF response.kind = "response" /\ response.status_code = 200
                          THEN @ ELSE @ + 1]
    /\ pc' = "account"
    /\ UNCHANGED <<leads, batch_size, i, batch, k, icebreaker, score, campaign_name,
                   processed, successful, failed, stats, campaigns, procVars, genVars,
                   scoreVars, routeVars, ingestVars, fanVars, reportVars>>

\* if success: successful += 1; stats[...][campaign_name] += 1
\* else: failed += 1; then processed += 1
Account ==
    /\ pc = "account"
    /\ IF success
       THEN /\ successful' = successful + 1
            /\ stats' = [stats EXCEPT !.campaign_distribution[campaign_name] = @ + 1]
            /\ UNCHANGED failed
       ELSE /\ failed' = failed + 1
            /\ UNCHANGED <<successful, stats>>
    /\ processed' = processed + 1
    /\ log' = [log EXCEPT !.request = NoRequest, !.response = NoAnswer]
    /\ pc' = "sleep"
    /\ UNCHANGED <<leads, batch_size, i, batch, k, icebreaker, score, campaign_name, success,
                   campaigns, procVars, genVars, scoreVars, routeVars, ingestVars, fanVars, reportVars>>

\* time.sleep(0.5)
LeadDelay ==
    /\ pc = "sleep"
    /\ log' = [log EXCEPT !.lead_delays = @ + 1]
    /\ NextLead
    /\ UNCHANGED <<leads, batch_size, i, batch, processed, successful, failed, stats, campaigns, procVars, genVars,
                   scoreVars, routeVars, ingestVars, fanVars, reportVars>>

\* except Exception: failed += 1; processed += 1
HandleException ==
    /\ pc = "except"
    /\ failed' = failed + 1
    /\ processed' = processed + 1
    /\ NextLead
    /\ UNCHANGED <<leads, batch_size, i, batch, successful, stats, campaigns, log, procVars, genVars, scoreVars,
                   routeVars, ingestVars, fanVars, reportVars>>

\* if i + batch_size < total_leads: time.sleep(2); then the next i
EndBatch ==
    /\ pc = "batch_end"
    /\ IF i + batch_size < total_leads
       THEN pc' = "pause" /\ UNCHANGED i
       ELSE pc' = "batch" /\ i' = i + batch_size
    /\ UNCHANGED <<leads, batch_size, batch, k, icebreaker, score, campaign_name, success,
                   processed, successful, failed, stats, campaigns, log, procVars, genVars,
                   scoreVars, routeVars, ingestVars, fanVars, reportVars>>

\* time.sleep(2)
BatchPause ==
    /\ pc = "pause"
    /\ log' = [log EXCEPT !.batch_pauses = @ + 1]
    /\ i' = i + batch_size
    /\ pc' = "batch"
    /\ UNCHANGED <<leads, batch_size, batch, k, icebreaker, score, campaign_name, success,
                   processed, successful, failed, stats, campaigns, procVars, genVars,
                   scoreVars, routeVars, ingestVars, fanVars, reportVars>>

\* stats['total_processed'] = processed; ...; return stats
Return ==
    /\ pc = "return"
    /\ stats' = [stats EXCEPT !.total_processed = processed,
                              !.successful = successful,
                              !.failed = failed]
    /\ pc' = "done"
    /\ UNCHANGED <<leads, batch_size, i, batch, k, icebreaker, score, campaign_name, success,
                   processed, successful, failed, campaigns, log, procVars, genVars,
                   scoreVars, routeVars, ingestVars, fanVars, reportVars>>

-----------------------------------------------------------------------------
(* The scorer applied to leads drawn from bounded sets of field values,    *)
(* and to the same lead with one scoring field changed.                    *)

CompanyNames == {"", "Y Corp", "Acme Agency", "ACME SERVICES", "agency"}
Industries == {"", "Retail", "Consulting", "legal"}
Titles == {"", "Clerk", "CEO", "Vp Sales"}
Websites == {"", "x.com", "http://x.com"}
Linkedins == {"", "li"}

ScoreLeads ==
    {Lead("Sam", "Lee", "j@x.com", c, ind, w, t, l) :
        c \in CompanyNames, ind \in Industries, w \in Websites, t \in Titles, l \in Linkedins}

ScoringFields == {"company_name", "industry", "title", "website", "linkedin"}

\* the texts whose addition makes a field match its rule
RuleTexts(field) ==
    CASE field = "company_name" -> company_keywords \cup {"AGENCY"}
      [] field = "industry" -> high_value_industries \cup {"Marketing"}
      [] field = "title" -> decision_maker_titles \cup {"Owner"}
      [] field = "website" -> {"http"}
      [] field = "linkedin" -> {"li"}

\* s with t inserted after its first p characters
Insert(s, p, t) == SubSeq(s, 1, p) \o t \o SubSeq(s, p + 1, Len(s))

ScoreStart(lead) ==
    [phase |-> "lead", lead |-> lead, score |-> -1,
     field |-> "", lead2 |-> NoLead, score2 |-> -1]

ScoreIdle == [ScoreStart(NoLead) EXCEPT !.phase = "idle"]

\* score = self.calculate_lead_score(lead)
ScoreLead ==
    /\ scoreCase.phase = "lead"
    /\ scoreCase' = [scoreCase EXCEPT !.phase = "scored",
                                      !.score = calculate_lead_score(scoreCase.lead)]
    /\ UNCHANGED <<procVars, genVars, runVars, routeVars, ingestVars, fanVars, reportVars>>

\* the lead with one scoring field made to match its rule, scored again
ScoreChangedLead ==
    /\ scoreCase.phase = "scored"
    /\ \E field \in ScoringFields :
         \E t \in RuleTexts(field) :
           \E p \in 0..Len(scoreCase.lead[field]) :
             LET lead2 == [scoreCase.lead EXCEPT ![field] = Insert(@, p, t)] IN
             scoreCase' = [scoreCase EXCEPT !.phase = "changed",
                                            !.field = field,
                                            !.lead2 = lead2,
                                            !.score2 = calculate_lead_score(lead2)]
    /\ UNCHANGED <<procVars, genVars, runVars, routeVars, ingestVars, fanVars, reportVars>>

-----------------------------------------------------------------------------
(* The router applied to pairs of scores.                                  *)

MaxScore == 100

Scores == 0..MaxScore

RouteStart(a, b) == [phase |-> "scores", a |-> a, b |-> b, ta |-> "", tb |-> ""]

RouteIdle == [RouteStart(0, 0) EXCEPT !.phase = "idle"]

\* campaign_name = self.assign_campaign_by_score(score)
Route ==
    /\ routeCase.phase = "scores"
    /\ routeCase' = [routeCase EXCEPT !.phase = "routed",
                                      !.ta = assign_campaign_by_score(routeCase.a),
                                      !.tb = assign_campaign_by_score(routeCase.b)]
    /\ UNCHANGED <<procVars, genVars, runVars, scoreVars, ingestVars, fanVars, reportVars>>

-----------------------------------------------------------------------------
(* Ingestion: load_csv_data and load_google_sheets_data read a table of    *)
(* headers and rows and hand it to _process_dataframe_to_leads.            *)

Fields == {"first_name", "last_name", "email", "company_name", "industry", "website",
           "title", "linkedin"}

Range(seq) == {seq[n] : n \in DOMAIN seq}

\* get_column_mapping: the identity names, or the Apollo preset (with its
\* default column names) when DEFAULT_DATA_SOURCE selects it
get_column_mapping(data_source) ==
    LET mapping == [f \in Fields |-> f]
        apollo_mapping == [mapping EXCEPT !.company_name = "company",
                                          !.website = "website_url"]
    IN IF data_source \in {"apollo_csv", "apollo"} THEN apollo_mapping ELSE mapping

field_variations ==
    [first_name |-> <<"first_name", "first name", "firstname", "fname", "given_name">>,
     last_name |-> <<"last_name", "last name", "lastname", "lname", "family_name", "surname">>,
     email |-> <<"email", "email_address", "email address", "e_mail", "mail">>,
     company_name |-> <<"company_name", "company name", "company", "organization", "org">>,
     industry |-> <<"industry", "sector", "vertical", "business_type">>,
     website |-> <<"website", "website_url", "web_site", "url", "domain", "company_url">>,
     title |-> <<"title", "job_title", "position", "role", "job title">>,
     linkedin |-> <<"linkedin", "linkedin_url", "linkedin profile", "li_profile">>]

\* detect_csv_columns without the break: the last variation found wins
detect_csv_columns_last(df_columns) ==
    LET columns == {lower(h) : h \in Range(df_columns)}
        found(f) == {n \in DOMAIN field_variations[f] : field_variations[f][n] \in columns}
    IN [f \in {g \in Fields : found(g) # {}} |-> field_variations[f][SetMax(found(f))]]

\* detect_csv_columns: for each field the first variation found among the
\* lower-cased headers; a field with none is not in the result
detect_csv_columns(df_columns) ==
    LET columns == {lower(h) : h \in Range(df_columns)}
        found(f) == {n \in DOMAIN field_variations[f] : field_variations[f][n] \in columns}
    IN [f \in {g \in Fields : found(g) # {}} |-> field_variations[f][SetMin(found(f))]]

\* final_mapping = {field: detected.get(field, mapping.get(field, ''))}
final_mapping(df_columns, data_source) ==
    LET mapping == get_column_mapping(data_source)
        detected == detect_csv_columns(df_columns)
    IN [f \in Fields |-> IF f \in DOMAIN detected THEN detected[f] ELSE mapping[f]]

\* the lead_data dict with the cell tested for 'nan', 'none', 'null' before
\* it is stripped, and the unstripped cell kept
row_lead_data_unstripped(mapping, df_columns, row) ==
    LET present == {f \in Fields : mapping[f] # "" /\ mapping[f] \in Range(df_columns)}
        value(f) == LET v == row[mapping[f]]
                    IN IF lower(v) \in {"nan", "none", "null", ""} THEN "" ELSE v
    IN [f \in present |-> value(f)]

\* the lead_data dict built from one row: a field is set only when its
\* column is a header of the table; the cell is stripped, and 'nan', 'none',
\* 'null' in any case become ''
row_lead_data(mapping, df_columns, row) ==
    LET present == {f \in Fields : mapping[f] # "" /\ mapping[f] \in Range(df_columns)}
        value(f) == LET v == strip(row[mapping[f]])
                    IN IF lower(v) \in {"nan", "none", "null", ""} THEN "" ELSE v
    IN [f \in present |-> value(f)]

\* lead_data.get(field, '')
dict_get(d, key, default) == IF key \in DOMAIN d THEN d[key] ELSE default

\* Lead(first_name=lead_data.get('first_name', ''), ...)
row_lead(mapping, df_columns, row) ==
    LET d == row_lead_data(mapping, df_columns, row)
    IN Lead(dict_get(d, "first_name", ""), dict_get(d, "last_name", ""),
            dict_get(d, "email", ""), dict_get(d, "company_name", ""),
            dict_get(d, "industry", ""), dict_get(d, "website", ""),
            dict_get(d, "title", ""), dict_get(d, "linkedin", ""))

\* validate_lead without the test for '@'
validate_lead_any_email(lead) ==
    IF lead.email = "" THEN FALSE
    ELSE IF lead.company_name = "" \/ Len(strip(lead.company_name)) < 2 THEN FALSE
    ELSE IF lead.first_name = "" /\ lead.last_name = "" THEN FALSE
    ELSE TRUE

validate_lead(lead) ==
    IF lead.email = "" \/ ~contains(lead.email, "@") THEN FALSE
    ELSE IF lead.company_name = "" \/ Len(strip(lead.company_name)) < 2 THEN FALSE
    ELSE IF lead.first_name = "" /\ lead.last_name = "" THEN FALSE
    ELSE TRUE

MaxRows == 2

\* the header rows of the tables read: the canonical names, names in mixed
\* case, aliases, two aliases of one field
HeaderLists ==
    {<<"email", "company_name", "first_name", "last_name">>,
     <<"Email", "Company", "First Name", "Last Name">>,
     <<"email_address", "company", "fname", "surname">>,
     <<"e_mail", "company name", "fname", "company">>}

\* str(cell) for the cells of the four columns
EmailCells == {" sam@acme.co ", "acme.co", "NaN"}
CompanyCells == {"Acme Co", " A "}
FirstNameCells == {"Sam", "nan"}
LastNameCells == {"Lee", " None "}

\* the rows a table with these headers can hold
Rows(df_columns) ==
    {[h \in Range(df_columns) |->
         CASE h = df_columns[1] -> e
           [] h = df_columns[2] -> c
           [] h = df_columns[3] -> f
           [] OTHER -> l] :
       e \in EmailCells, c \in CompanyCells, f \in FirstNameCells, l \in LastNameCells}

\* a call of load_csv_data ("csv") or load_google_sheets_data ("sheets") on
\* a table with these headers and n rows, DEFAULT_DATA_SOURCE being set to
\* data_source
IngestStart(source, df_columns, n, data_source) ==
    [pc |-> "load", source |-> source, data_source |-> data_source,
     columns |-> df_columns, n_rows |-> n,
     mapping |-> [f \in Fields |-> ""],
     rows_read |-> 0, row |-> [h \in Range(df_columns) |-> ""], lead |-> NoLead,
     leads |-> <<>>, skipped_count |-> 0, error |-> ""]

IngestIdle == [IngestStart("csv", <<>>, 0, "csv") EXCEPT !.pc = "idle"]

\* load_google_sheets_data raises when the sheet has no records; otherwise
\* both loaders call _process_dataframe_to_leads, which first fixes the
\* column mapping
LoadData ==
    /\ ingest.pc = "load"
    /\ ingest' =
         IF ingest.source = "sheets" /\ ingest.n_rows = 0
         THEN [ingest EXCEPT !.pc = "raised", !.error = "No data found in Google Sheet"]
         ELSE [ingest EXCEPT !.pc = "rows",
                             !.mapping = final_mapping(ingest.columns, ingest.data_source)]
    /\ UNCHANGED <<procVars, genVars, runVars, scoreVars, routeVars, fanVars, reportVars>>

\* the body of for _, row in df.iterrows()
ProcessRow ==
    /\ ingest.pc = "rows"
    /\ ingest.rows_read < ingest.n_rows
    /\ \E row \in Rows(ingest.columns) :
         LET lead == row_lead(ingest.mapping, ingest.columns, row) IN
         ingest' = [ingest EXCEPT
                      !.rows_read = @ + 1,
                      !.row = row,
                      !.lead = lead,
                      !.leads = IF validate_lead(lead) THEN Append(@, lead) ELSE @,
                      !.skipped_count = IF validate_lead(lead) THEN @ ELSE @ + 1]
    /\ UNCHANGED <<procVars, genVars, runVars, scoreVars, routeVars, fanVars, reportVars>>

\* the end of _process_dataframe_to_leads that returns whatever it has
FinishRows_silent ==
    /\ ingest.pc = "rows"
    /\ ingest.rows_read = ingest.n_rows
    /\ ingest' = [ingest EXCEPT !.pc = "returned"]
    /\ UNCHANGED <<procVars, genVars, runVars, scoreVars, routeVars, fanVars, reportVars>>

\* if len(leads) == 0: raise ValueError(...); return leads
FinishRows ==
    /\ ingest.pc = "rows"
    /\ ingest.rows_read = ingest.n_rows
    /\ ingest' =
         IF Len(ingest.leads) = 0
         THEN [ingest EXCEPT !.pc = "raised", !.error = "No valid leads found in data source"]
         ELSE [ingest EXCEPT !.pc = "returned"]
    /\ UNCHANGED <<procVars, genVars, runVars, scoreVars, routeVars, fanVars, reportVars>>

-----------------------------------------------------------------------------
(* N8nIcebreakerClient.batch_generate_icebreakers: the main thread takes   *)
(* the leads in groups, submits each group to a thread pool and collects   *)
(* the futures as they complete; each worker thread runs                   *)
(* generate_icebreaker for one lead.                                       *)

MaxFanLeads == 3
MaxConcurrent == 2

FanCompanies == <<"Acme Co", "Y Corp", "Bright Legal", "Delta Labs", "Echo Group">>

\* the leads given: n leads of different companies
FanLeads(n) ==
    [m \in 1..n |-> Lead("Sam", "Lee", "sam@acme.co", FanCompanies[m], "", "", "", "")]

\* the relay's answers to the workers: a text, an HTTP error, a timeout, a
\* body that is not JSON
FanResponses ==
    {resp \in RelayResponses :
        \/ resp.kind = "Timeout"
        \/ resp.kind = "response" /\ resp.status_code = 500
        \/ resp.kind = "response" /\ resp.json = "invalid" /\ resp.status_code = 200
        \/ resp.kind = "response" /\ resp.json = "dict"
           /\ DOMAIN resp.body = {"status", "icebreaker"} /\ resp.body.status = "success"}

\* the environments of the client: the default fallback template, and one
\* with an unknown placeholder
FanEnvironments ==
    LET env == [NoEnvironment EXCEPT
                  !.N8N_ICEBREAKER_WEBHOOK_URL = "https://n8n.example/webhook/icebreaker"]
    IN {env, [env EXCEPT !.ICEBREAKER_FALLBACK = BadFallback]}

NoResult == [status |-> "none"]

\* a future: queued in the pool, running in a worker thread (its request in
\* flight), or finished with a result or an exception
NewFuture == [state |-> "queued", raised |-> FALSE, result |-> NoResult, collected |-> FALSE]

FanStart(n, max_concurrent) ==
    [pc |-> "loop", leads |-> FanLeads(n), max_concurrent |-> max_concurrent,
     i |-> 0, batch |-> <<>>, future |-> <<>>, results |-> <<>>,
     started |-> {}, completed |-> {}, failed |-> {}, pauses |-> 0]

FanIdle == [FanStart(0, 1) EXCEPT !.pc = "idle"]

\* batch = leads[i:] : every lead not yet taken
fan_batch_rest(list, start, size) == SubSeq(list, start + 1, Len(list))

\* batch = leads[i:i + batch_size]
fan_batch(list, start, size) == Slice(list, start, size)

\* for i in range(0, len(leads), batch_size): the executor is created and
\* every lead of the batch submitted; after the last batch, return results
SubmitBatch ==
    /\ fan.pc = "loop"
    /\ fan' = IF fan.i < Len(fan.leads)
              THEN LET group == fan_batch(fan.leads, fan.i, fan.max_concurrent)
                   IN [fan EXCEPT !.pc = "collect", !.batch = group,
                                  !.future = [w \in 1..Len(group) |-> NewFuture]]
              ELSE [fan EXCEPT !.pc = "returned"]
    /\ UNCHANGED <<procVars, genVars, runVars, scoreVars, routeVars, ingestVars, reportVars>>

Running(f) == {w \in DOMAIN f.future : f.future[w].state = "running"}

\* a thread of the pool (max_workers=max_concurrent) takes a queued future
\* and sends the lead's request
WorkerStart ==
    /\ fan.pc \in {"collect", "unwind"}
    /\ Cardinality(Running(fan)) < fan.max_concurrent
    /\ \E w \in DOMAIN fan.future :
         /\ fan.future[w].state = "queued"
         /\ fan' = [fan EXCEPT !.future[w].state = "running",
                               !.started = @ \cup {fan.i + w}]
    /\ UNCHANGED <<procVars, genVars, runVars, scoreVars, routeVars, ingestVars, reportVars>>

\* the request of a worker is answered and generate_icebreaker returns or raises
WorkerFinish ==
    /\ fan.pc \in {"collect", "unwind"}
    /\ \E w \in DOMAIN fan.future, resp \in FanResponses :
         LET r == n8n_generate_icebreaker(environ, fan.batch[w], resp) IN
         /\ fan.future[w].state = "running"
         /\ fan' = [fan EXCEPT
                      !.future[w] = [state |-> "finished", raised |-> r.raised,
                                     result |-> IF r.raised THEN NoResult ELSE r.value,
                                     collected |-> FALSE],
                      !.completed = @ \cup {fan.i + w},
                      !.failed = IF RelayFailed(resp) THEN @ \cup {fan.i + w} ELSE @]
    /\ UNCHANGED <<procVars, genVars, runVars, scoreVars, routeVars, ingestVars, reportVars>>

\* for future in as_completed(future_to_lead): the main thread takes a
\* finished future; result = future.result() is appended, and for a future
\* that raised the fallback response of its lead, whose formatting can raise
\* in turn.  Each result is kept with the position of its lead in the input.
CollectFuture ==
    /\ fan.pc = "collect"
    /\ \E w \in DOMAIN fan.future :
         LET f == fan.future[w]
             fallback == get_fallback_response(environ, fan.batch[w], "error")
         IN /\ f.state = "finished" /\ ~f.collected
            /\ fan' =
                 IF ~f.raised
                 THEN [fan EXCEPT !.future[w].collected = TRUE,
                                  !.results = Append(@, [of |-> fan.i + w, result |-> f.result])]
                 ELSE IF ~fallback.raised
                 THEN [fan EXCEPT !.future[w].collected = TRUE,
                                  !.results = Append(@, [of |-> fan.i + w,
                                                         result |-> fallback.value])]
                 ELSE [fan EXCEPT !.future[w].collected = TRUE, !.pc = "unwind"]
    /\ UNCHANGED <<procVars, genVars, runVars, scoreVars, routeVars, ingestVars, reportVars>>

\* the with block is left after every future was collected; then
\* if i + batch_size < len(leads): time.sleep(1), and the next i
ExitExecutor ==
    /\ fan.pc = "collect"
    /\ \A w \in DOMAIN fan.future : fan.future[w].collected
    /\ fan' = [fan EXCEPT !.pc = "loop", !.i = @ + fan.max_concurrent,
                          !.batch = <<>>, !.future = <<>>,
                          !.pauses = IF fan.i + fan.max_concurrent < Len(fan.leads)
                                     THEN @ + 1 ELSE @]
    /\ UNCHANGED <<procVars, genVars, runVars, scoreVars, routeVars, ingestVars, reportVars>>

\* an exception leaves the with block: the executor waits for every future
\* of the batch (shutdown(wait=True)) and batch_generate_icebreakers raises
RaiseFromBatch ==
    /\ fan.pc = "unwind"
    /\ \A w \in DOMAIN fan.future : fan.future[w].state = "finished"
    /\ fan' = [fan EXCEPT !.pc = "raised", !.results = <<>>]
    /\ UNCHANGED <<procVars, genVars, runVars, scoreVars, routeVars, ingestVars, reportVars>>

-----------------------------------------------------------------------------
(* generate_processing_report applied to the statistics returned.          *)

ReportIdle == [pc |-> "idle", total |-> 0, successful |-> 0, failed |-> 0,
               success_rate |-> 0, distribution |-> [t \in Tiers |-> 0]]

\* f"{x:.1f}" of the quotient a / b * 100, in tenths: rounded to the nearest
\* tenth, a tie to the even one
percent_tenths(a, b) ==
    LET q == (a * 1000) \div b
        r == (a * 1000) % b
    IN IF 2 * r > b \/ (2 * r = b /\ q % 2 = 1) THEN q + 1 ELSE q

\* generate_processing_report: the counts shown in the report text; the
\* success rate stats['successful']/stats['total_processed']*100 raises
\* ZeroDivisionError for a total of 0
generate_processing_report(st) ==
    IF st.total_processed = 0
    THEN [ReportIdle EXCEPT !.pc = "raised"]
    ELSE [pc |-> "written", total |-> st.total_processed, successful |-> st.successful,
          failed |-> st.failed,
          success_rate |-> percent_tenths(st.successful, st.total_processed),
          distribution |-> st.campaign_distribution]

\* processor.generate_processing_report(stats, report_file), after
\* process_leads_batch has returned
GenerateReport ==
    /\ pc = "done"
    /\ report.pc = "idle"
    /\ report' = generate_processing_report(stats)
    /\ UNCHANGED <<procVars, genVars, runVars, scoreVars, routeVars, ingestVars, fanVars>>

-----------------------------------------------------------------------------
vars == <<procVars, genVars, runVars, scoreVars, routeVars, ingestVars, fanVars, reportVars>>

\* stats = processor.process_leads_batch(leads, batch_size), called on a
\* constructed processor
Init ==
    /\ environ \in RunEnvironments
    /\ self = ColdEmailProcessor(environ)
    /\ genCase = GenIdle
    /\ leads \in LeadLists(MaxLeads)
    /\ batch_size \in 1..MaxBatch
    /\ pc = "campaigns"
    /\ i = 0 /\ batch = <<>> /\ k = 0
    /\ icebreaker = "" /\ score = 0 /\ campaign_name = "" /\ success = FALSE
    /\ processed = 0 /\ successful = 0 /\ failed = 0 /\ stats = NewStats
    /\ campaigns = EmptyDict /\ log = NewLog
    /\ scoreCase = ScoreIdle
    /\ routeCase = RouteIdle
    /\ ingest = IngestIdle
    /\ fan = FanIdle
    /\ report = ReportIdle

Next ==
    \/ GetCampaigns \/ LoopBatch \/ GenerateIcebreaker \/ CalculateScore
    \/ AssignCampaign \/ CreateInstantlyLead \/ Account \/ LeadDelay
    \/ HandleException \/ EndBatch \/ BatchPause \/ Return \/ GenerateReport

Spec == Init /\ [][Next]_vars


\* no processor is in use
ProcIdle ==
    /\ environ = NoEnvironment
    /\ self = NotConstructed
    /\ genCase = GenIdle
    /\ RunIdle

InitGen ==
    /\ environ \in Environments
    /\ self = NotConstructed
    /\ genCase = GenStart
    /\ RunIdle
    /\ scoreCase = ScoreIdle
    /\ routeCase = RouteIdle
    /\ ingest = IngestIdle
    /\ fan = FanIdle
    /\ report = ReportIdle

NextGen == Construct \/ Generate

SpecGen == InitGen /\ [][NextGen]_vars

InitScore ==
    /\ \E lead \in ScoreLeads : scoreCase = ScoreStart(lead)
    /\ routeCase = RouteIdle
    /\ ingest = IngestIdle
    /\ fan = FanIdle
    /\ report = ReportIdle
    /\ ProcIdle

NextScore == ScoreLead \/ ScoreChangedLead

SpecScore == InitScore /\ [][NextScore]_vars

InitRoute ==
    /\ \E a \in Scores, b \in Scores : routeCase = RouteStart(a, b)
    /\ scoreCase = ScoreIdle
    /\ ingest = IngestIdle
    /\ fan = FanIdle
    /\ report = ReportIdle
    /\ ProcIdle

NextRoute == Route

SpecRoute == InitRoute /\ [][NextRoute]_vars

InitIngest ==
    /\ \E source \in {"csv", "sheets"}, df_columns \in HeaderLists, n \in 0..MaxRows,
          data_source \in {"csv", "apollo"} :
            ingest = IngestStart(source, df_columns, n, data_source)
    /\ scoreCase = ScoreIdle
    /\ routeCase = RouteIdle
    /\ fan = FanIdle
    /\ report = ReportIdle
    /\ ProcIdle

NextIngest == LoadData \/ ProcessRow \/ FinishRows

SpecIngest == InitIngest /\ [][NextIngest]_vars

\* results = client.batch_generate_icebreakers(leads, max_concurrent), on a
\* client constructed with a webhook URL
InitFan ==
    /\ environ \in FanEnvironments
    /\ self = NotConstructed
    /\ genCase = GenIdle
    /\ RunIdle
    /\ scoreCase = ScoreIdle
    /\ routeCase = RouteIdle
    /\ ingest = IngestIdle
    /\ report = ReportIdle
    /\ \E n \in 0..MaxFanLeads, max_concurrent \in 1..MaxConcurrent :
          fan = FanStart(n, max_concurrent)

NextFan == SubmitBatch \/ WorkerStart \/ WorkerFinish \/ CollectFuture \/ ExitExecutor
           \/ RaiseFromBatch

SpecFan == InitFan /\ [][NextFan]_vars

-----------------------------------------------------------------------------
(* Claims about the scorer and the router.                                 *)

\* C6: for every Lead, calculate_lead_score returns an integer s with
\* 0 <= s <= 100.
C6_ScoreInRange ==
    /\ scoreCase.phase \in {"scored", "changed"} =>
          scoreCase.score \in Int /\ 0 <= scoreCase.score /\ scoreCase.score <= 100
    /\ scoreCase.phase = "changed" =>
          scoreCase.score2 \in Int /\ 0 <= scoreCase.score2 /\ scoreCase.score2 <= 100

\* a lead with every field empty is scored 0, and a lead matching all five
\* rules is scored 100
C6_Witness ==
    /\ scoreCase.phase = "changed"
    /\ scoreCase.lead.company_name = "" /\ scoreCase.lead.industry = ""
    /\ scoreCase.lead.title = "" /\ scoreCase.lead.linkedin = ""
    /\ scoreCase.score = 0
    /\ scoreCase.field = "industry"
    /\ scoreCase.score2 = 30

\* C7: changing only one scoring field of a lead L so that it additionally
\* matches its rule yields a lead L' with
\* calculate_lead_score(L') >= calculate_lead_score(L).
C7_ScoreMonotonic ==
    scoreCase.phase = "changed" =>
        /\ \A f \in DOMAIN scoreCase.lead :
              f # scoreCase.field => scoreCase.lead2[f] = scoreCase.lead[f]
        /\ scoreCase.score2 >= scoreCase.score

\* a keyword is inserted in the middle of a company name that already
\* matched, and into an industry that did not match and now scores 30 more
C7_Witness ==
    /\ scoreCase.phase = "changed"
    /\ \/ /\ scoreCase.field = "company_name"
          /\ scoreCase.lead.company_name = "agency"
          /\ scoreCase.lead2.company_name = "ageservicesncy"
          /\ scoreCase.score2 = scoreCase.score
       \/ /\ scoreCase.field = "industry"
          /\ scoreCase.lead.industry = "Retail"
          /\ scoreCase.score2 = scoreCase.score + 30

\* C8: assign_campaign_by_score is total and monotonic non-decreasing over
\* scores 0..100, and its ranges partition 0..100: score >= 80 gives
\* enterprise-direct-pitch, 60 <= score < 80 professional-nurture, score < 60
\* educational-sequence; 59, 60, 79, 80 fall on the stated sides.
C8_RoutePartition ==
    routeCase.phase = "routed" =>
        /\ routeCase.ta \in Tiers /\ routeCase.tb \in Tiers
        /\ routeCase.a <= routeCase.b => TierRank(routeCase.ta) <= TierRank(routeCase.tb)
        /\ (routeCase.ta = "enterprise-direct-pitch") = (routeCase.a >= 80)
        /\ (routeCase.ta = "professional-nurture") = (60 <= routeCase.a /\ routeCase.a < 80)
        /\ (routeCase.ta = "educational-sequence") = (routeCase.a < 60)
        /\ routeCase.a = 59 => routeCase.ta = "educational-sequence"
        /\ routeCase.a = 60 => routeCase.ta = "professional-nurture"
        /\ routeCase.a = 79 => routeCase.ta = "professional-nurture"
        /\ routeCase.a = 80 => routeCase.ta = "enterprise-direct-pitch"

\* the two boundary scores 79 and 80 routed to neighbouring tiers
C8_Witness ==
    /\ routeCase.phase = "routed"
    /\ routeCase.a = 79 /\ routeCase.b = 80
    /\ routeCase.ta = "professional-nurture"
    /\ routeCase.tb = "enterprise-direct-pitch"

-----------------------------------------------------------------------------
(* Claims about the icebreaker generator.                                  *)

\* the calls made before position j of a sequence of calls
Before(calls, j) == {calls[n] : n \in 1..(j - 1)}

StaticTemplateCalls == {"get_icebreaker_fallback", "_get_fallback_response"}

\* C3: when the relay is the active provider and the relay call for a lead
\* fails, the generator then attempts the direct AI call for that lead, and
\* uses the static template only after the direct AI call.
C3_RelayFailureThenDirect ==
    (genCase.phase = "generated" /\ RelayFailed(genCase.relay)) =>
        LET calls == genCase.result.calls IN
        /\ \E n \in DOMAIN calls : calls[n] = "generate_claude_icebreaker"
        /\ \A j \in DOMAIN calls :
              calls[j] \in StaticTemplateCalls =>
                  "generate_claude_icebreaker" \in Before(calls, j)

\* C4: generate_ai_icebreaker returns a text and never raises, for every
\* lead, provider configuration, request outcome and configured template.
C4_GenerateNeverRaises ==
    genCase.phase = "generated" => ~genCase.result.raised

\* C5: when the relay is unreachable and the direct AI call is unavailable,
\* the text is the configured fallback template (by default the one ending
\* in "space.") formatted with company_name, industry ('business' when empty)
\* and first_name; for Acme Co / '' / Sam and the default template it is
\* "Impressed by what you're building at Acme Co, particularly your approach
\* in the business space."
C5_FallbackText ==
    (/\ genCase.phase = "generated"
     /\ genCase.relay.kind \in {"Timeout", "ConnectionError"}
     /\ self.claude_client = None
     /\ ~genCase.result.raised) =>
        /\ genCase.result.value =
              format(getenv(environ, "ICEBREAKER_FALLBACK", ProcessorDefaultFallback),
                     FallbackArgs(genCase.lead)).value
        /\ (environ.ICEBREAKER_FALLBACK = None /\ genCase.lead = AcmeCo) =>
              genCase.result.value =
                  "Impressed by what you're building at Acme Co, particularly your approach in the business space."

-----------------------------------------------------------------------------
(* Claims about process_leads_batch.                                       *)

\* C1: failure isolation. When the run over N leads returns, failed is the
\* number of leads whose handling failed (a dispatch not answered 200, a
\* network exception of the dispatch, a generation that raised), successful
\* is N minus that number and total_processed is N; every lead was
\* generated, and every lead whose generation returned was scored, routed
\* and dispatched, whatever happened to the leads before it.
C1_FailureIsolation ==
    pc = "done" =>
        /\ stats.failed = log.lead_failures
        /\ stats.successful = total_leads - log.lead_failures
        /\ stats.total_processed = total_leads
        /\ log.generated = total_leads
        /\ log.scored = total_leads - log.generation_failures
        /\ log.routed = total_leads - log.generation_failures
        /\ log.dispatched = total_leads - log.generation_failures

\* a run over three leads has returned: the generation of the first raised,
\* the two leads after it were both dispatched, one rejected and one accepted
C1_Witness ==
    /\ pc = "done"
    /\ total_leads = 3
    /\ log.generation_failures = 1
    /\ log.dispatched_after_failure = 2
    /\ stats.failed = 2
    /\ stats.successful = 1

\* the sum of the three per-tier counters
SumDistribution(d) ==
    d["enterprise-direct-pitch"] + d["professional-nurture"] + d["educational-sequence"]

\* C2: the three per-tier counters sum to the successful count, after each
\* lead has been handled and in the statistics returned.
C2_DistributionSum ==
    /\ SumDistribution(stats.campaign_distribution) = successful
    /\ pc = "done" => SumDistribution(stats.campaign_distribution) = stats.successful

\* a run has returned with one lead accepted in the top tier, one in the
\* bottom tier and one lead failed
C2_Witness ==
    /\ pc = "done"
    /\ stats.campaign_distribution["enterprise-direct-pitch"] = 1
    /\ stats.campaign_distribution["educational-sequence"] = 1
    /\ stats.successful = 2
    /\ stats.failed = 1

-----------------------------------------------------------------------------
(* Claims about ingestion.                                                 *)

\* the three conditions of the normalizer on a lead
MinimumData(lead) ==
    /\ \E n \in 1..Len(lead.email) : CharAt(lead.email, n) = "@"
    /\ Len(strip(lead.company_name)) >= 2
    /\ lead.first_name # "" \/ lead.last_name # ""

\* C9: every Lead in the list a loader builds and returns has an email
\* containing '@', a company_name of trimmed length at least 2 and a
\* non-empty first_name or last_name; the lead of a row that violates one of
\* the three is not in the list.
C9_NormalizerInvariant ==
    /\ \A n \in DOMAIN ingest.leads : MinimumData(ingest.leads[n])
    /\ (ingest.rows_read > 0 /\ ~MinimumData(ingest.lead)) =>
           \A n \in DOMAIN ingest.leads : ingest.leads[n] # ingest.lead

\* a loader has returned one lead of a table of two rows, the row read last
\* having an email without '@'
C9_Witness ==
    /\ ingest.pc = "returned"
    /\ ingest.rows_read = 2
    /\ Len(ingest.leads) = 1
    /\ ingest.skipped_count = 1
    /\ ingest.lead.email = "acme.co"
    /\ ingest.lead.company_name = "Acme Co"

\* C10: a loader never returns an empty list: when no row passed validation
\* (all rows read were skipped, or the table has no rows) it raises.
C10_NoEmptyResult ==
    /\ ingest.pc = "returned" => Len(ingest.leads) > 0
    /\ (ingest.pc \in {"returned", "raised"} /\ ingest.skipped_count = ingest.n_rows) =>
           ingest.pc = "raised"

\* a loader has raised after reading a table of two rows, both skipped
C10_Witness ==
    /\ ingest.pc = "raised"
    /\ ingest.n_rows = 2
    /\ ingest.rows_read = 2
    /\ ingest.skipped_count = 2
    /\ ingest.leads = <<>>

\* the headers of the table in lower case
LoweredHeaders == {lower(h) : h \in Range(ingest.columns)}

\* alias number n of field f is the first alias of f, in alias-list order,
\* among the lower-case headers
FirstAliasPresent(f, n, lowered) ==
    /\ field_variations[f][n] \in lowered
    /\ \A m \in 1..(n - 1) : field_variations[f][m] \notin lowered

\* t is s without its surrounding whitespace
IsTrimOf(t, s) ==
    /\ \E a \in 0..Len(s), b \in 0..Len(s) :
          /\ a + b <= Len(s)
          /\ t = SubSeq(s, a + 1, Len(s) - b)
          /\ \A n \in (1..a) \cup ((Len(s) - b + 1)..Len(s)) : CharAt(s, n) = " "
    /\ t # "" => CharAt(t, 1) # " " /\ CharAt(t, Len(t)) # " "

\* v is the field value the normalizer gives for the cell: the trimmed cell,
\* or '' when the trimmed cell is 'nan', 'none', 'null' in any case or empty
IsFieldOf(v, cell) ==
    \E t \in {strip(cell)} :
        /\ IsTrimOf(t, cell)
        /\ v = IF lower(t) \in {"nan", "none", "null", ""} THEN "" ELSE t

\* C11: column resolution is case-insensitive on header names: a header that
\* equals, up to letter case, the first present alias of a field is that
\* field's source column, and its cells populate the field of the Leads
\* built from the rows.
C11_CaseInsensitiveColumns ==
    ingest.rows_read > 0 =>
        LET lowered == LoweredHeaders IN
        \A h \in Range(ingest.columns) :
            LET name == lower(h) IN
            \A f \in Fields :
                (\E n \in DOMAIN field_variations[f] :
                    field_variations[f][n] = name /\ FirstAliasPresent(f, n, lowered))
                => IsFieldOf(ingest.lead[f], ingest.row[h])

\* the mapping of the configured profile: the identity names, or the
\* alternate preset
ConfiguredName(f) ==
    IF ingest.data_source = "apollo"
    THEN CASE f = "company_name" -> "company"
           [] f = "website" -> "website_url"
           [] OTHER -> f
    ELSE f

\* C12: for each canonical field the final mapping is the first alias of the
\* field, in alias-list order, present among the headers; the configured
\* mapping is used for a field only when none of its aliases is present.
C12_TwoPhaseMapping ==
    ingest.pc \in {"rows", "returned"} =>
        LET lowered == LoweredHeaders IN
        \A f \in Fields :
            IF \E n \in DOMAIN field_variations[f] : field_variations[f][n] \in lowered
            THEN \E n \in DOMAIN field_variations[f] :
                    /\ ingest.mapping[f] = field_variations[f][n]
                    /\ FirstAliasPresent(f, n, lowered)
            ELSE ingest.mapping[f] = ConfiguredName(f)

\* the mapping of a table with two aliases of company_name among its headers
\* and no alias of website, under the alternate profile
C12_Witness ==
    /\ ingest.pc = "rows"
    /\ ingest.columns = <<"e_mail", "company name", "fname", "company">>
    /\ ingest.data_source = "apollo"
    /\ ingest.mapping["company_name"] = "company name"
    /\ ingest.mapping["website"] = "website_url"

\* C17: every field value of a Lead built from a row is the source cell
\* trimmed of surrounding whitespace, or '' when the trimmed cell is 'nan',
\* 'none', 'null' in any letter case or empty; a field whose mapped column
\* is absent from the source is ''.
C17_FieldNormalization ==
    ingest.rows_read > 0 =>
        \A f \in Fields :
            IF ingest.mapping[f] \in Range(ingest.columns)
            THEN IsFieldOf(ingest.lead[f], ingest.row[ingest.mapping[f]])
            ELSE ingest.lead[f] = ""

\* a loader has returned a lead whose email is the cell without its
\* surrounding blanks, whose last name cell ' None ' became '' and whose
\* industry, having no column, is ''
C17_Witness ==
    /\ ingest.pc = "returned"
    /\ ingest.row[ingest.mapping["email"]] = " sam@acme.co "
    /\ ingest.row[ingest.mapping["last_name"]] = " None "
    /\ ingest.leads[Len(ingest.leads)] = ingest.lead
    /\ ingest.lead.email = "sam@acme.co"
    /\ ingest.lead.last_name = ""
    /\ ingest.lead.industry = ""

-----------------------------------------------------------------------------
(* The scorer against its reference sum.                                   *)

\* one of the keywords occurs in the text, letter case ignored
HasKeyword(text, keywords) ==
    LET t == lower(text) IN
    \E kw \in keywords : \E p \in 1..(Len(t) - Len(kw) + 1) :
        SubSeq(t, p, p + Len(kw) - 1) = kw

Points(b, n) == IF b THEN n ELSE 0

\* the reference sum of the five rules, at most 100
ReferenceScore(lead) ==
    LET sum == Points(HasKeyword(lead.company_name, {"agency", "consulting", "services"}), 25)
             + Points(HasKeyword(lead.industry, {"marketing", "consulting", "agency",
                                                  "services", "legal", "accounting"}), 30)
             + Points(HasKeyword(lead.title, {"owner", "ceo", "president", "founder",
                                               "director", "vp"}), 25)
             + Points(lead.website # "" /\ HasKeyword(lead.website, {"http"}), 10)
             + Points(lead.linkedin # "", 10)
    IN IF sum > 100 THEN 100 ELSE sum

-----------------------------------------------------------------------------
(* Claims about construction, the dispatch requests and the order and      *)
(* pacing of the steps of process_leads_batch.                             *)

\* a credential required by the selected AI provider or by the platform is
\* not set
CredentialAbsent(env) ==
    LET provider == lower(getenv(env, "AI_PROVIDER", "claude")) IN
    \/ env.INSTANTLY_API_KEY = None
    \/ provider = "claude" /\ env.CLAUDE_API_KEY = None
                           /\ env.N8N_ICEBREAKER_WEBHOOK_URL = None
    \/ provider = "azure_openai" /\ (env.AZURE_OPENAI_KEY = None
                                    \/ env.AZURE_OPENAI_ENDPOINT = None)

\* C13: when a credential required by the selected AI provider or by the
\* outbound platform is absent, processing cannot begin: no lead is
\* generated for, scored or dispatched.
C13_ConfigurationErrorFatal ==
    CredentialAbsent(environ) =>
        log.generated = 0 /\ log.scored = 0 /\ log.dispatched = 0

\* C14: every dispatch request carries the duplicate-skip flag set to true,
\* so a platform that honours it holds at most one entry per lead email,
\* however often the email is dispatched.
C14_NoDuplicateEntries ==
    /\ pc = "account" => log.request.skip_if_in_workspace
    /\ \A e \in DOMAIN log.entries : log.entries[e] <= 1

\* the same lead was dispatched and accepted twice, and a third dispatch of
\* it is in flight; the platform holds one entry for its email
C14_Witness ==
    /\ pc = "account"
    /\ Len(leads) = 3
    /\ leads[1] = leads[2] /\ leads[2] = leads[3]
    /\ stats.campaign_distribution["enterprise-direct-pitch"] = 2
    /\ log.request.email = leads[3].email
    /\ log.request.skip_if_in_workspace
    /\ log.entries[leads[3].email] = 1

\* the leads before the current one whose generation returned
HandledBefore == processed - (log.generation_failures - (IF pc = "except" THEN 1 ELSE 0))

\* C15: for each lead the steps happen in the order generate, score, route,
\* dispatch; the steps of the next lead start only after the dispatch and
\* the per-lead delay of the lead before it; at most one dispatch request
\* is in flight.
C15_SequentialSteps ==
    /\ pc = "generate" =>
          /\ log.generated = processed
          /\ log.scored = HandledBefore /\ log.routed = HandledBefore
          /\ log.dispatched = HandledBefore /\ log.lead_delays = HandledBefore
    /\ pc = "score" =>
          /\ log.generated = processed + 1
          /\ log.scored = HandledBefore /\ log.routed = HandledBefore
          /\ log.dispatched = HandledBefore /\ log.lead_delays = HandledBefore
    /\ pc = "route" =>
          /\ log.generated = processed + 1 /\ log.scored = HandledBefore + 1
          /\ log.routed = HandledBefore /\ log.dispatched = HandledBefore
    /\ pc = "dispatch" =>
          /\ log.scored = HandledBefore + 1 /\ log.routed = HandledBefore + 1
          /\ log.dispatched = HandledBefore /\ log.lead_delays = HandledBefore
          /\ log.request = NoRequest
    /\ pc = "account" =>
          /\ log.routed = HandledBefore + 1 /\ log.dispatched = HandledBefore + 1
          /\ log.lead_delays = HandledBefore
    /\ pc # "account" => log.request = NoRequest

\* the third lead of a list is about to be dispatched, after the dispatches
\* and delays of the two leads before it
C15_Witness ==
    /\ pc = "dispatch"
    /\ Len(leads) = 3
    /\ processed = 2
    /\ log.generated = 3 /\ log.scored = 3 /\ log.routed = 3
    /\ log.dispatched = 2 /\ log.lead_delays = 2

LeadSteps == {"generate", "score", "route", "dispatch", "account", "sleep", "except"}

\* C18: for batch sizes B >= 1 the leads are handled in consecutive slices of
\* exactly B leads (the last of N mod B leads when that is not 0), the
\* slices together are the input list, and the lead being handled is the
\* next of the input list not handled yet: each lead is dispatched at most
\* once, in input order.
C18_BatchPartition ==
    /\ pc \in LeadSteps =>
          /\ i % batch_size = 0 /\ i < Len(leads)
          /\ Len(batch) = (IF i + batch_size <= Len(leads) THEN batch_size
                           ELSE Len(leads) % batch_size)
          /\ \A n \in 1..Len(batch) : batch[n] = leads[i + n]
          /\ k \in 1..Len(batch)
          /\ i + k = (IF pc = "sleep" THEN processed ELSE processed + 1)
    /\ pc = "account" => log.request.email = leads[processed + 1].email
    /\ pc = "done" => processed = Len(leads) /\ i >= Len(leads)
                       /\ log.dispatched <= Len(leads)

\* the last slice of three leads in batches of two: one lead, the third
C18_Witness ==
    /\ pc = "dispatch"
    /\ Len(leads) = 3 /\ batch_size = 2
    /\ i = 2 /\ k = 1
    /\ batch = <<leads[3]>>
    /\ log.dispatched = 2

\* the batches of n leads in batches of b
Batches(n, b) == (n + b - 1) \div b

\* C19: a batch pause occurs after a batch if and only if at least one more
\* lead remains: a run over N leads with batch size B makes
\* max(0, ceil(N/B) - 1) pauses, each after the last lead of a batch and
\* before the first generation of the next, none after the final batch.
C19_BatchPauses ==
    /\ pc = "done" =>
          log.batch_pauses = (IF Len(leads) = 0 THEN 0
                              ELSE Batches(Len(leads), batch_size) - 1)
    /\ pc = "pause" => i + batch_size < Len(leads) /\ k = Len(batch) + 1
    /\ pc \in LeadSteps => log.batch_pauses = i \div batch_size

\* a run over three leads in batches of two has returned after one pause
C19_Witness ==
    /\ pc = "done"
    /\ Len(leads) = 3 /\ batch_size = 2
    /\ log.batch_pauses = 1
    /\ log.generated = 3

\* C20: every dispatch request, accepted or not, is followed by one per-lead
\* delay before any step of the next lead, and a run that sends D dispatch
\* requests makes D per-lead delays.
C20_LeadDelays ==
    /\ pc \in {"account", "sleep"} => log.lead_delays = log.dispatched - 1
    /\ pc \notin {"account", "sleep"} => log.lead_delays = log.dispatched

\* a run has returned after three dispatches, accepted and rejected, and
\* three per-lead delays
C20_Witness ==
    /\ pc = "done"
    /\ log.dispatched = 3 /\ log.lead_delays = 3
    /\ stats.successful = 1 /\ stats.failed = 2

\* C21: process_leads_batch requests the platform's campaign list exactly
\* once per run, before the first lead's generation step (also when the lead
\* list is empty), and whatever that request gives (a 200 response, another
\* status, an exception) the run goes on to the batch loop and handles the
\* same leads: the listing never ends the run, and the statistics returned
\* count every lead of the list.
C21_CampaignListingBestEffort ==
    /\ pc = "campaigns" => log.campaign_requests = 0 /\ log.generated = 0
    /\ pc # "campaigns" => log.campaign_requests = 1
    /\ pc # "raised"
    /\ pc = "done" => stats.total_processed = Len(leads)

\* C22: a lead is counted as successful if and only if its dispatch request
\* returned status 200, and then exactly one per-tier counter is incremented
\* by one, the counter of assign_campaign_by_score(calculate_lead_score(lead));
\* for a lead counted as failed (another status, a network exception, an
\* exception in an earlier step) the three per-tier counters are unchanged.
\* No other step of the loop changes the counters.
C22_SuccessAccounting ==
    [][LET accepted == log.response.kind = "response" /\ log.response.status_code = 200
           tier == assign_campaign_by_score(calculate_lead_score(batch[k]))
       IN /\ pc = "account" =>
                /\ processed' = processed + 1
                /\ IF accepted
                   THEN /\ successful' = successful + 1 /\ failed' = failed
                        /\ stats'.campaign_distribution =
                              [stats.campaign_distribution EXCEPT ![tier] = @ + 1]
                   ELSE /\ successful' = successful /\ failed' = failed + 1
                        /\ stats'.campaign_distribution = stats.campaign_distribution
          /\ pc = "except" =>
                /\ processed' = processed + 1
                /\ successful' = successful /\ failed' = failed + 1
                /\ stats'.campaign_distribution = stats.campaign_distribution
          /\ pc \notin {"account", "except"} =>
                /\ UNCHANGED <<processed, successful, failed>>
                /\ stats'.campaign_distribution = stats.campaign_distribution]_vars

\* a run has returned after one accepted lead, counted in the top tier only,
\* one rejected lead and one lead whose generation raised
C22_Witness ==
    /\ pc = "done"
    /\ stats.successful = 1 /\ stats.failed = 2
    /\ stats.campaign_distribution["enterprise-direct-pitch"] = 1
    /\ SumDistribution(stats.campaign_distribution) = 1
    /\ log.generation_failures = 1 /\ log.dispatched = 2

\* the relay answered 200 with a JSON object whose status is 'success' and
\* that carries an icebreaker text
RelaySucceeded(resp) ==
    /\ resp.kind = "response" /\ resp.status_code = 200 /\ resp.json = "dict"
    /\ "status" \in DOMAIN resp.body /\ resp.body.status = "success"
    /\ "icebreaker" \in DOMAIN resp.body

\* C23: when the workflow relay answers HTTP 200 with a body whose status is
\* 'success', the generator returns the remote icebreaker text unchanged (no
\* quote or period stripping, no template formatting) and makes no direct AI
\* call for that lead.
C23_RelaySuccessVerbatim ==
    (genCase.phase = "generated" /\ RelaySucceeded(genCase.relay)) =>
        /\ ~genCase.result.raised
        /\ genCase.result.value = genCase.relay.body.icebreaker
        /\ Count(genCase.result.calls, "relay_request") = 1
        /\ Count(genCase.result.calls, "direct_request") = 0
        /\ Count(genCase.result.calls, "get_icebreaker_fallback") = 0
        /\ Count(genCase.result.calls, "_get_fallback_response") = 0

\* the relay's text, in quotes and ending with a period, was returned with
\* its quotes and its period
C23_Witness ==
    /\ genCase.phase = "generated"
    /\ RelaySucceeded(genCase.relay)
    /\ genCase.lead = AcmeCo
    /\ genCase.result.value = "\"Love your approach to onboarding.\""
    /\ genCase.result.calls = <<"generate_ai_icebreaker", "generate_n8n_icebreaker",
                                "N8nIcebreakerClient.generate_icebreaker", "relay_request">>

\* generation is disabled by ICEBREAKER_ENABLED, or the processor has no
\* provider: its provider is 'none' or unknown, or it is 'claude' with
\* neither client
NoProvider(s, env) ==
    \/ lower(getenv(env, "ICEBREAKER_ENABLED", "true")) # "true"
    \/ s.ai_provider \notin {"claude", "azure_openai"}
    \/ s.ai_provider = "claude" /\ s.n8n_client = None /\ s.claude_client = None

\* C24: during one call of generate_ai_icebreaker for one lead, at most one
\* request is sent to the workflow relay and at most one to the direct AI
\* provider, whatever their outcomes; when icebreaker generation is disabled
\* or no provider is configured, no external request is sent at all.
C24_NoRetries ==
    genCase.phase = "generated" =>
        LET calls == genCase.result.calls IN
        /\ Count(calls, "relay_request") <= 1
        /\ Count(calls, "direct_request") <= 1
        /\ NoProvider(self, environ) =>
              Count(calls, "relay_request") = 0 /\ Count(calls, "direct_request") = 0

\* the one direct request failed and the static template was returned
C24_Witness ==
    /\ genCase.phase = "generated"
    /\ self.claude_client # None
    /\ genCase.direct = [ok |-> FALSE, text |-> ""]
    /\ genCase.result.calls = <<"generate_ai_icebreaker", "generate_claude_icebreaker",
                                "direct_request", "get_icebreaker_fallback">>

\* a processor with a relay client whose generation is disabled sent nothing
C24_DisabledWitness ==
    /\ genCase.phase = "generated"
    /\ self.n8n_client # None
    /\ environ.ICEBREAKER_ENABLED = "False"
    /\ genCase.result.calls = <<"generate_ai_icebreaker", "get_icebreaker_fallback">>

\* the group of max_concurrent leads that the n-th lead of the input is in
GroupOf(n) == (n - 1) \div fan.max_concurrent

\* C25: during batch_generate_icebreakers(leads, max_concurrent), at every
\* moment and under every interleaving of the worker threads, the number of
\* relay requests in flight is at most max_concurrent; all requests of one
\* group of max_concurrent leads have completed before any request of the
\* next group starts.
C25_BoundedFanOut ==
    /\ Cardinality(Running(fan)) <= fan.max_concurrent
    /\ Cardinality(fan.started \ fan.completed) <= fan.max_concurrent
    /\ \A a \in fan.started :
          \A b \in 1..Len(fan.leads) : GroupOf(b) < GroupOf(a) => b \in fan.completed

\* three leads with max_concurrent 2: both requests of the first group are
\* in flight at once; later the third lead's request is in flight after the
\* first two have completed
C25_Witness ==
    /\ Len(fan.leads) = 3 /\ fan.max_concurrent = 2
    /\ fan.started = {1, 2, 3} /\ fan.completed = {1, 2}
    /\ Cardinality(Running(fan)) = 1
    /\ Len(fan.results) = 2 /\ fan.results[1].of = 2

\* both requests of a group are in flight at once
C25_BothInFlight ==
    /\ fan.max_concurrent = 2
    /\ Cardinality(Running(fan)) = 2
    /\ fan.started \ fan.completed = {1, 2}

\* the results returned for the n-th lead of the input
ResultsOf(n) == {m \in DOMAIN fan.results : fan.results[m].of = n}

\* the fallback result of a lead: status 'fallback' and the static template
\* filled in with the lead's company and industry
IsFallbackResult(result, lead) ==
    /\ "status" \in DOMAIN result /\ result.status = "fallback"
    /\ "icebreaker" \in DOMAIN result
    /\ \E template \in {ClientDefaultFallback, getenv(environ, "ICEBREAKER_FALLBACK", "")} :
          LET text == format(template, FallbackArgs(lead))
          IN ~text.raised /\ result.icebreaker = text.value

\* C26: batch_generate_icebreakers returns exactly one result per input lead
\* under every interleaving and every pattern of relay failures; a lead
\* whose relay request fails or whose worker raises contributes a result
\* with status 'fallback' carrying the static-template text for that lead,
\* and one lead's failure does not remove or alter the result of any other
\* lead.
C26_OneResultPerLead ==
    /\ fan.pc # "raised"
    /\ \A n \in 1..Len(fan.leads) :
          /\ Cardinality(ResultsOf(n)) <= 1
          /\ (fan.pc = "loop" /\ n <= fan.i) => Cardinality(ResultsOf(n)) = 1
          /\ \A m \in ResultsOf(n) :
                IF n \in fan.failed
                THEN IsFallbackResult(fan.results[m].result, fan.leads[n])
                ELSE fan.results[m].result.status = "success"
    /\ fan.pc = "returned" => Len(fan.results) = Len(fan.leads)

\* C27: the dispatch request sent for a lead carries that lead's own email,
\* names and company, as personalization (and custom icebreaker variable)
\* exactly the text the generator returned for that same lead, and as
\* campaign identifier assign_campaign_by_score(calculate_lead_score(lead));
\* no request mixes the text or tier of one lead with the fields of another.
\* The lead is the next of the input list not yet counted; its text and its
\* tier are checked at the steps that compute them and are carried
\* unchanged into the request.
C27_DispatchPayload ==
    /\ [](pc = "score" =>
            \E resp \in RelayAnswers(self), direct \in DirectAnswers(self) :
               LET r == generate_ai_icebreaker(self, environ, leads[processed + 1],
                                               resp, direct)
               IN ~r.raised /\ icebreaker = r.value)
    /\ [][LET lead == leads[processed + 1] IN
       /\ pc = "score" => icebreaker' = icebreaker /\ processed' = processed
       /\ pc = "route" =>
             /\ icebreaker' = icebreaker /\ processed' = processed
             /\ campaign_name' = assign_campaign_by_score(calculate_lead_score(lead))
       /\ pc = "dispatch" =>
             /\ processed' = processed
             /\ log'.request =
                   [email |-> lead.email, first_name |-> lead.first_name,
                    last_name |-> lead.last_name, company_name |-> lead.company_name,
                    personalization |-> icebreaker, industry |-> lead.industry,
                    website |-> lead.website, title |-> lead.title,
                    icebreaker |-> icebreaker, campaign_id |-> campaign_name,
                    skip_if_in_workspace |-> TRUE]]_vars

\* the second lead of a batch, after a lead of another company and another
\* tier: the request carries its own fields, its own text and its own tier
C27_Witness ==
    /\ pc = "account"
    /\ leads = <<YCorp, AcmeAgency>> /\ batch_size = 2 /\ k = 2
    /\ log.request.email = "j@x.com" /\ log.request.company_name = "Acme Agency"
    /\ log.request.personalization =
          "Impressed by what you're building at Acme Agency, particularly your approach in the Consulting space."
    /\ log.request.icebreaker = log.request.personalization
    /\ log.request.campaign_id = "enterprise-direct-pitch"
    /\ stats.campaign_distribution["educational-sequence"] = 1

\* C28: after ColdEmailProcessor is constructed, for every combination of
\* environment settings and library availability, at most one of the relay
\* client and the direct AI client is set (the direct client is created
\* only when no relay client was), neither is changed afterwards by a call
\* of the generator, and a processor with the relay client sends no direct
\* AI request.
C28_ProviderInitialization ==
    /\ [](self.n8n_client = None \/ self.claude_client = None)
    /\ []((genCase.phase = "generated" /\ self.n8n_client # None) =>
              /\ self.ai_provider = "claude"
              /\ Count(genCase.result.calls, "direct_request") = 0)
    /\ [][self.constructed => self' = self]_vars

\* a processor given a webhook URL, the AI library and an API key has the
\* relay client only; its relay request failed and the direct stage it then
\* entered sent nothing
C28_Witness ==
    /\ genCase.phase = "generated"
    /\ environ.CLAUDE_AVAILABLE /\ environ.CLAUDE_API_KEY = "sk-ant"
    /\ self.n8n_client # None /\ self.claude_client = None
    /\ genCase.relay.kind = "response" /\ genCase.relay.status_code = 200
    /\ genCase.relay.json = "dict" /\ DOMAIN genCase.relay.body = {"status"}
    /\ Count(genCase.result.calls, "generate_claude_icebreaker") = 1
    /\ Count(genCase.result.calls, "direct_request") = 0

\* the sums of any of the five rule weights
RuleSums ==
    {a + b + c + d + e : a \in {0, 25}, b \in {0, 30}, c \in {0, 25}, d \in {0, 10}, e \in {0, 10}}

\* for a lead and the score returned for it
ClampInactive(lead, points) ==
    LET sum == score_before_cap(lead)
        main == company_rule(lead) /\ industry_rule(lead) /\ title_rule(lead)
    IN /\ sum \in RuleSums /\ sum <= 100
       /\ points = sum
       /\ points = 100 => main /\ website_rule(lead) /\ linkedin_rule(lead)
       /\ assign_campaign_by_score(points) = "enterprise-direct-pitch" => main

\* C29: the clamp in calculate_lead_score is never active: for every Lead
\* the unclamped sum of rule points is one of the sums of {25, 30, 25, 10,
\* 10} and never exceeds 100, so min(sum, 100) = sum; the score 100 is
\* reached only when all five rules match, and a lead reaches
\* enterprise-direct-pitch (score >= 80) only if it matches all three of the
\* company, industry and title rules.
C29_ClampInactive ==
    /\ scoreCase.phase = "scored" => ClampInactive(scoreCase.lead, scoreCase.score)
    /\ scoreCase.phase = "changed" => ClampInactive(scoreCase.lead2, scoreCase.score2)

\* a lead matching every rule but the company rule scored 75, below the top
\* tier; with a company keyword added it scores 100, the sum of all five
C29_Witness ==
    /\ scoreCase.phase = "changed"
    /\ scoreCase.score = 75
    /\ ~company_rule(scoreCase.lead)
    /\ scoreCase.field = "company_name"
    /\ scoreCase.score2 = 100
    /\ score_before_cap(scoreCase.lead2) = 100

\* C30: for every statistics value that process_leads_batch can return,
\* the all-zero statistics of an empty lead list included,
\* generate_processing_report completes without raising and reports the
\* total, successful, failed and per-tier counts it was given.
C30_ReportTotal ==
    /\ report.pc # "raised"
    /\ report.pc = "written" =>
          /\ report.total = stats.total_processed
          /\ report.successful = stats.successful
          /\ report.failed = stats.failed
          /\ report.distribution = stats.campaign_distribution

====
